---- MODULE Spec2Model ----
(***************************************************************************)
(* A model of the litebike proxy core: the relay engine (relay_streams),   *)
(* the universal listener's peek/detect/dispatch chain, the ARM64 prefix   *)
(* detector, the SOCKS5 and HTTP handlers, the ProxyChannel table and its  *)
(* counters, the protocol registry of UnifiedProtocolManager, the bind of  *)
(* the universal listener with its fallback, the upstream dial             *)
(* (connect_to_target), the universal accept loop, the tuned accept of     *)
(* libc_socket_tune, the ChannelManager and the blocking forwarder         *)
(* minimal_nc_forward.                                                     *)
(*                                                                         *)
(* Bytes are naturals 0..255.  A socket is modelled by the queue of bytes  *)
(* its peer has sent and the proxy has not read yet (rcvq), whether the    *)
(* peer closes after those bytes (peerClosed), the bytes the proxy has     *)
(* written to it (sent) and whether the proxy still holds it (sockOpen).   *)
(* A read that takes fewer bytes than are queued stands both for a short   *)
(* read and for bytes that have not arrived yet.                           *)
(***************************************************************************)
EXTENDS Integers, Sequences, FiniteSets, TLC

VARIABLES
    rcvq,        \* [Side -> Seq(Byte)]  bytes queued from the peer, unread
    peerClosed,  \* [Side -> BOOLEAN]    the peer closes behind the queued bytes
    sent,        \* [Side -> Seq(Byte)]  bytes the proxy has written to the peer
    sockOpen,    \* [Side -> BOOLEAN]    the proxy holds the socket
    rpc,         \* relay_streams: "idle", "relaying", "returned"
    rst,         \* [Dir -> state of that direction's tokio::io::copy future]
    rbuf,        \* [Dir -> Seq(Byte)]   the copy future's buffer (read, unwritten)
    rread,       \* [Dir -> Seq(Byte)]   history: bytes the copy has read
    rbase,       \* [Side -> Nat]        Len(sent[side]) when the relay started
    cliStream,   \* history: every byte the client sends on the connection
    upc,         \* handle_universal_connection: where the connection stands
    peeked,      \* the bytes peek returned (data = &buffer[..n])
    hread,       \* history: bytes the selected handler has read from the stream
    hpc,         \* handle_socks5 / handle_http: the await the handler stands at
    hloc,        \* the handler's local variables
    hev,         \* history: the handler's steps, in order
    chans,       \* ProxyChannel.channels: [name -> ChannelState or NoChannel]
    calls,       \* [call -> where that handle_connection call stands]
    opRet,       \* what the last ProxyChannel call other than handle_connection returned
    dbuf,        \* the buffer handed to the ARM64 detector
    dres,        \* what each entry point of the detector returned for dbuf
    registry,    \* ProtocolRegistry: the descriptors, in registration order
    fallback,    \* ProtocolRegistry: the fallback handler, or "none"
    dprefix,     \* the prefix the registry is asked to dispatch
    selected,    \* history: the outcome of each dispatch of dprefix, in order
    router,      \* SimpleRouter: the primary and the fallback RouteConfig
    bpc,         \* main's universal listener: where its bind stands
    battempts,   \* history: the configurations bind was attempted on, in order
    bactive,     \* the configuration bind_with_fallback reported, or NoConfig
    ctpc,        \* connect_to_target: the step the call stands at
    ctarget,     \* connect_to_target: its argument, the target text
    ctaddr,      \* connect_to_target: the socket address it dials, or NoAddr
    ctret,       \* connect_to_target: what it returned
    ctev,        \* history: what the resolver and the connect did, in order
    backlog,     \* the universal listener: connections that arrived and are not accepted yet
    tasks,       \* [connection -> where the task spawned for it stands]
    atpc,        \* accept_with_options: the step the call stands at
    atopts,      \* accept_with_options: its TcpTuningOptions
    atfds,       \* [descriptor -> "free", "accepted" (open, held by the call), "stream" or "closed"]
    atcur,       \* the descriptor and address family accept4 gave the call, the option it is at
    atret,       \* what the last accept_with_options call returned
    atcalls,     \* number of accept_with_options calls made
    mproviders,  \* ChannelManager.channels: [name -> the provider registered under it]
    mactive,     \* ChannelManager.active_channels: [name -> ChannelType or "none"]
    mret,        \* what the last ChannelManager call returned
    mregs,       \* number of register_channel calls made
    ncmain,      \* minimal_nc_forward: where the calling thread stands
    ncfwd,       \* minimal_nc_forward: where the spawned client -> target thread stands
    ncbuf        \* [direction -> bytes read into that thread's buf and not written yet]

sockVars  == <<rcvq, peerClosed, sent, sockOpen>>
relayVars == <<rpc, rst, rbuf, rread, rbase>>
uniVars   == <<cliStream, upc, peeked, hread>>
hVars     == <<hpc, hloc, hev>>
chanVars  == <<chans, calls, opRet>>
detVars   == <<dbuf, dres>>
regVars   == <<registry, fallback, dprefix, selected>>
bindVars  == <<router, bpc, battempts, bactive>>
connVars  == <<ctpc, ctarget, ctaddr, ctret, ctev>>
accVars   == <<backlog, tasks>>
fdVars    == <<atpc, atopts, atfds, atcur, atret, atcalls>>
mgrVars   == <<mproviders, mactive, mret, mregs>>
ncVars    == <<ncmain, ncfwd, ncbuf>>
connOthers == <<accVars, fdVars, mgrVars, ncVars>>
accOthers == <<connVars, fdVars, mgrVars, ncVars>>
fdOthers == <<connVars, accVars, mgrVars, ncVars>>
mgrOthers == <<connVars, accVars, fdVars, ncVars>>
ncOthers == <<connVars, accVars, fdVars, mgrVars>>
lateVars  == <<connVars, accVars, fdVars, mgrVars, ncVars>>
unitVars  == <<detVars, regVars, bindVars, lateVars>>
coreVars  == <<sockVars, relayVars, uniVars, hVars, chanVars, detVars, regVars, bindVars>>
vars == <<rcvq, peerClosed, sent, sockOpen, rpc, rst, rbuf, rread, rbase,
          cliStream, upc, peeked, hread, hpc, hloc, hev, chans, calls, opRet,
          dbuf, dres, registry, fallback, dprefix, selected,
          router, bpc, battempts, bactive,
          ctpc, ctarget, ctaddr, ctret, ctev,
          backlog, tasks,
          atpc, atopts, atfds, atcur, atret, atcalls,
          mproviders, mactive, mret, mregs,
          ncmain, ncfwd, ncbuf>>

----------------------------------------------------------------------------
(* Generic helpers *)

Min(a, b) == IF a <= b THEN a ELSE b

Take(s, n) == SubSeq(s, 1, Min(n, Len(s)))

Drop(s, n) == SubSeq(s, Min(n, Len(s)) + 1, Len(s))

IsPrefix(a, b) == Len(a) <= Len(b) /\ SubSeq(b, 1, Len(a)) = a

SeqsUpTo(S, n) == UNION { [1..k -> S] : k \in 0..n }

Side == {"client", "remote"}

Dir == {"c2r", "r2c"}

\* The parts of the state a specification does not use stay as they are here.
RelayIdle ==
    /\ rpc = "idle"
    /\ rst = [d \in Dir |-> "idle"]
    /\ rbuf = [d \in Dir |-> <<>>]
    /\ rread = [d \in Dir |-> <<>>]
    /\ rbase = [s \in Side |-> 0]

UniIdle ==
    /\ cliStream = <<>>
    /\ upc = "idle"
    /\ peeked = <<>>
    /\ hread = <<>>

NoAddr == [fam |-> "none", ip |-> <<>>, port |-> 0]

HLocInit ==
    [ nmethods |-> 0, methods |-> <<>>, req |-> <<>>, domlen |-> 0,
      target |-> NoAddr, dialErr |-> "none", upLocal |-> NoAddr,
      localAddr |-> NoAddr, request |-> <<>>, text |-> <<>> ]

HandlerIdle ==
    /\ hpc = "idle"
    /\ hloc = HLocInit
    /\ hev = <<>>

ChanNames == {"a", "b", "c", "d"}

\* The channels connections are handled on.
CallNames == {"a", "b"}

\* Number of handle_connection calls made on the ProxyChannel.
MaxCalls == 2

CallIds == 1..MaxCalls

NoChannel == [active |-> FALSE]

NoCall == [pc |-> "idle", chan |-> "none", inc |-> FALSE, dec |-> FALSE]

\* ProxyChannel::new: no channel, no call.
ChannelIdle ==
    /\ chans = [n \in ChanNames |-> NoChannel]
    /\ calls = [c \in CallIds |-> NoCall]
    /\ opRet = [op |-> "none", name |-> "none", ret |-> "none", stats |-> <<>>]

NoResult == [simd |-> "none", arm64 |-> "none"]

DetectorIdle ==
    /\ dbuf = <<>>
    /\ dres = NoResult

RegistryIdle ==
    /\ registry = [built |-> "none", table |-> <<>>, max_detection_bytes |-> 0]
    /\ fallback = "none"
    /\ dprefix = <<>>
    /\ selected = <<>>

NoConfig == [interface |-> "none", bind_addr |-> <<>>, port |-> 0]

BindIdle ==
    /\ router = [primary |-> NoConfig, fallback |-> NoConfig]
    /\ bpc = "idle"
    /\ battempts = <<>>
    /\ bactive = NoConfig

NoReturn == [kind |-> "none", stream |-> NoAddr]

ConnectIdle ==
    /\ ctpc = "idle"
    /\ ctarget = <<>>
    /\ ctaddr = NoAddr
    /\ ctret = NoReturn
    /\ ctev = <<>>

\* Number of connections made to the universal listener.
MaxConns == 3

Conns == 1..MaxConns

NoTask == [st |-> "none", stalledBefore |-> FALSE]

AcceptIdle ==
    /\ backlog = {}
    /\ tasks = [c \in Conns |-> NoTask]

\* Number of accept_with_options calls made on the listener.
MaxAccepts == 2

\* Descriptors accept4 can return.
Fds == 1..MaxAccepts

NoOptions ==
    [ nodelay |-> FALSE, keepalive |-> FALSE, keepalive_idle_secs |-> FALSE,
      keepalive_interval_secs |-> FALSE, keepalive_count |-> FALSE,
      send_buffer_size |-> FALSE, recv_buffer_size |-> FALSE ]

NoAccepted == [fd |-> 0, family |-> "none", step |-> 0]

TuneIdle ==
    /\ atpc = "idle"
    /\ atopts = NoOptions
    /\ atfds = [f \in Fds |-> "free"]
    /\ atcur = NoAccepted
    /\ atret = "none"
    /\ atcalls = 0

\* Number of register_channel calls made on the ChannelManager.
MaxRegisters == 3

\* The names channels are registered and opened under.
MgrNames == {"a", "b"}

NoProvider == [registered |-> FALSE, max_connections |-> 0, open |-> {}]

ManagerIdle ==
    /\ mproviders = [n \in MgrNames |-> NoProvider]
    /\ mactive = [n \in MgrNames |-> "none"]
    /\ mret = "none"
    /\ mregs = 0

ForwardIdle ==
    /\ ncmain = "idle"
    /\ ncfwd = "idle"
    /\ ncbuf = [d \in Dir |-> <<>>]

LateIdle == ConnectIdle /\ AcceptIdle /\ TuneIdle /\ ManagerIdle /\ ForwardIdle

UnitIdle == DetectorIdle /\ RegistryIdle /\ BindIdle /\ LateIdle

----------------------------------------------------------------------------
(* Byte strings of the wire protocols                                       *)

B_GET      == <<71, 69, 84, 32>>
B_POST     == <<80, 79, 83, 84, 32>>
B_PUT      == <<80, 85, 84, 32>>
B_DELETE   == <<68, 69, 76, 69, 84, 69, 32>>
B_HEAD     == <<72, 69, 65, 68, 32>>
B_OPTIONS  == <<79, 80, 84, 73, 79, 78, 83, 32>>
B_CONNECT  == <<67, 79, 78, 78, 69, 67, 84, 32>>
B_PATCH    == <<80, 65, 84, 67, 72, 32>>
B_PROXY    == <<80, 82, 79, 88, 89, 32>>
B_H2       == <<80, 82, 73, 32, 42, 32, 72, 84, 84, 80, 47, 50, 46, 48>>
B_PAC      == <<47, 112, 114, 111, 120, 121, 46, 112, 97, 99>>
B_WPAD     == <<47, 119, 112, 97, 100, 46, 100, 97, 116>>
B_UpgradeWs == <<85, 112, 103, 114, 97, 100, 101, 58, 32, 119, 101, 98, 115,
                 111, 99, 107, 101, 116>>
B_upgradeWs == <<117, 112, 103, 114, 97, 100, 101, 58, 32, 119, 101, 98, 115,
                 111, 99, 107, 101, 116>>

StartsWith(data, pat) == IsPrefix(pat, data)

Contains(data, pat) ==
    \E i \in 1..(Len(data) - Len(pat) + 1) :
        SubSeq(data, i, i + Len(pat) - 1) = pat

\* The length of the UTF-8 sequence that lead byte b opens, 0 when b cannot
\* open one (a continuation byte, 0xC0, 0xC1, 0xF5 and above).
Utf8SeqLen(b) ==
    IF b <= 127 THEN 1
    ELSE IF b >= 194 /\ b <= 223 THEN 2
    ELSE IF b >= 224 /\ b <= 239 THEN 3
    ELSE IF b >= 240 /\ b <= 244 THEN 4
    ELSE 0

\* The range the byte after lead byte b must lie in (no overlong forms, no
\* surrogates, nothing above U+10FFFF).
Utf8SecondRange(b) ==
    IF b = 224 THEN 160..191
    ELSE IF b = 237 THEN 128..159
    ELSE IF b = 240 THEN 144..191
    ELSE IF b = 244 THEN 128..143
    ELSE 128..191

\* std::str::from_utf8(data).is_ok(): the first byte opens a sequence, every
\* byte that is not a continuation byte opens a sequence that is complete and
\* well-formed, and the byte after a sequence opens the next one.
Utf8Valid(s) ==
    LET IsCont(j) == s[j] >= 128 /\ s[j] <= 191
    IN  /\ s # <<>> => ~IsCont(1)
        /\ \A i \in 1..Len(s) :
              IsCont(i) \/
                 LET n == Utf8SeqLen(s[i])
                 IN  /\ n > 0
                     /\ i + n - 1 <= Len(s)
                     /\ n >= 2 => s[i + 1] \in Utf8SecondRange(s[i])
                     /\ \A j \in (i + 2)..(i + n - 1) : IsCont(j)
                     /\ i + n <= Len(s) => ~IsCont(i + n)

\* char::is_whitespace on ASCII.
IsWs(b) == b \in {9, 10, 11, 12, 13, 32}

RECURSIVE TrimEnd(_)
TrimEnd(s) ==
    IF s # <<>> /\ IsWs(s[Len(s)]) THEN TrimEnd(SubSeq(s, 1, Len(s) - 1)) ELSE s

RECURSIVE TrimStart(_)
TrimStart(s) ==
    IF s # <<>> /\ IsWs(s[1]) THEN TrimStart(Tail(s)) ELSE s

\* str::trim
Trim(s) == TrimStart(TrimEnd(s))

\* The length of the longest prefix of s without a byte of set `stop`.
RunLen(s, stop) ==
    IF \E i \in 1..Len(s) : s[i] \in stop
    THEN (CHOOSE i \in 1..Len(s) :
              s[i] \in stop /\ \A j \in 1..(i - 1) : s[j] \notin stop) - 1
    ELSE Len(s)

\* str::split_whitespace, collected.
RECURSIVE SplitWs(_)
SplitWs(s) ==
    IF s = <<>> THEN <<>>
    ELSE IF IsWs(s[1]) THEN SplitWs(Tail(s))
    ELSE <<Take(s, RunLen(s, {9, 10, 11, 12, 13, 32}))>>
            \o SplitWs(Drop(s, RunLen(s, {9, 10, 11, 12, 13, 32})))

\* str::lines, collected: split at "\n", a "\r" before it removed.
RECURSIVE Lines(_)
Lines(s) ==
    IF s = <<>> THEN <<>>
    ELSE LET n == RunLen(s, {10})
             line == Take(s, n)
             ended == n < Len(s)
         IN  << IF ended /\ line # <<>> /\ line[Len(line)] = 13
                THEN SubSeq(line, 1, Len(line) - 1) ELSE line >>
                \o Lines(Drop(s, n + 1))

\* str::to_lowercase on ASCII.
ToLower(s) == [i \in 1..Len(s) |-> IF s[i] >= 65 /\ s[i] <= 90 THEN s[i] + 32 ELSE s[i]]

\* The position of the last byte b of s, 0 when there is none.
LastIndex(s, b) ==
    IF \E i \in 1..Len(s) : s[i] = b
    THEN CHOOSE i \in 1..Len(s) : s[i] = b /\ \A j \in (i + 1)..Len(s) : s[j] # b
    ELSE 0

RECURSIVE DecValue(_)
DecValue(s) ==
    IF s = <<>> THEN 0 ELSE DecValue(SubSeq(s, 1, Len(s) - 1)) * 10 + (s[Len(s)] - 48)

\* port_str.parse::<u16>().is_ok(): digits after an optional '+', at most 65535.
ParsesU16(s) ==
    LET d == IF s # <<>> /\ s[1] = 43 THEN Tail(s) ELSE s
    IN  /\ d # <<>>
        /\ \A i \in 1..Len(d) : d[i] >= 48 /\ d[i] <= 57
        /\ DecValue(d) <= 65535

----------------------------------------------------------------------------
(* Universal listener: handle_universal_connection                          *)

\* let mut buffer = [0u8; 64]
PeekLen == 64

\* The method test of the detection chain (text.starts_with("GET ") || ...).
HttpMethodText(data) ==
    \/ StartsWith(data, B_GET) \/ StartsWith(data, B_POST)
    \/ StartsWith(data, B_PUT) \/ StartsWith(data, B_DELETE)
    \/ StartsWith(data, B_HEAD) \/ StartsWith(data, B_OPTIONS)
    \/ StartsWith(data, B_CONNECT) \/ StartsWith(data, B_PATCH)

\* The protocol the detection chain reports for the peeked bytes.
UniversalTag(data) ==
    IF Len(data) >= 2 /\ data[1] = 5 THEN "Socks5"
    ELSE IF Utf8Valid(data)
         THEN IF HttpMethodText(data) THEN "Http" ELSE "UnknownText"
    ELSE IF Len(data) >= 3 /\ data[1] = 22 /\ data[2] = 3 THEN "Tls"
    ELSE "UnknownBinary"

\* What handle_universal_connection does with the connection.
UniversalRoute(data) ==
    CASE UniversalTag(data) = "Socks5" -> "handle_socks5"
      [] UniversalTag(data) = "Http" ->
            IF Contains(data, B_PAC) \/ Contains(data, B_WPAD)
            THEN "serve_simple_pac" ELSE "handle_http"
      [] UniversalTag(data) = "UnknownText" -> "handle_http"
      [] UniversalTag(data) = "Tls" -> "closed"
      [] OTHER -> "failed"

----------------------------------------------------------------------------
(* ARM64 prefix detector: Arm64SimdDetector                                 *)

\* Need at least 16 bytes for NEON
NeonLen == 16

SpaceByte == 32

\* A method name padded with spaces to the 16 bytes of a NEON register.
Pad16(m) == m \o [i \in 1..(NeonLen - Len(m)) |-> SpaceByte]

\* http_patterns of Arm64SimdDetector::new.
HttpPatterns ==
    << Pad16(<<71, 69, 84>>), Pad16(<<80, 79, 83, 84>>), Pad16(<<80, 85, 84>>),
       Pad16(<<68, 69, 76, 69, 84, 69>>), Pad16(<<72, 69, 65, 68>>),
       Pad16(<<79, 80, 84, 73, 79, 78, 83>>), Pad16(<<67, 79, 78, 78, 69, 67, 84>>),
       Pad16(<<80, 65, 84, 67, 72>>) >>

\* str::trim of &pattern[..8]: its length without the whitespace at both ends.
MethodLen(pattern) == Len(Trim(SubSeq(pattern, 1, 8)))

\* cmp_result & mask == mask: the first n lanes of vceqq_u8(data, pattern)
\* are all ones, that is, the first n bytes are equal (n <= 8).
LanesEqual(buffer, pattern, n) == \A i \in 1..n : buffer[i] = pattern[i]

\* Arm64SimdDetector::detect_scalar
DetectScalar(buffer) ==
    IF buffer = <<>> THEN "Unknown"
    ELSE IF buffer[1] = 5 THEN "Socks5"
    ELSE IF Len(buffer) >= 3 /\ buffer[1] = 22 /\ buffer[2] = 3 THEN "Tls"
    ELSE IF HttpMethodText(buffer) THEN "Http"
    ELSE IF Len(buffer) >= 6 /\ StartsWith(buffer, B_PROXY) THEN "ProxyProtocol"
    ELSE IF Len(buffer) >= 14 /\ StartsWith(buffer, B_H2) THEN "Http2"
    ELSE "Unknown"

\* Arm64SimdDetector::contains_websocket_upgrade
ContainsWebsocketUpgrade(buffer) ==
    Utf8Valid(buffer) /\ (Contains(buffer, B_UpgradeWs) \/ Contains(buffer, B_upgradeWs))

\* Arm64SimdDetector::detect_simd
DetectSimd(buffer) ==
    IF buffer = <<>> THEN "Unknown"
    ELSE IF buffer[1] = 5 THEN "Socks5"
    ELSE IF Len(buffer) < NeonLen THEN DetectScalar(buffer)
    ELSE IF buffer[1] = 22 /\ buffer[2] = 3 THEN "Tls"
    ELSE IF \E k \in 1..Len(HttpPatterns) :
               /\ MethodLen(HttpPatterns[k]) > 0
               /\ LanesEqual(buffer, HttpPatterns[k], MethodLen(HttpPatterns[k]))
         THEN "Http"
    ELSE IF Len(buffer) >= 6 /\ LanesEqual(buffer, Pad16(B_PROXY), 5)
         THEN "ProxyProtocol"
    ELSE IF Len(buffer) >= 14 /\ LanesEqual(buffer, Pad16(B_H2), 14) THEN "Http2"
    ELSE IF Len(buffer) >= 3 /\ SubSeq(buffer, 1, 3) = <<71, 69, 84>>
            /\ ContainsWebsocketUpgrade(buffer)
         THEN "WebSocket"
    ELSE "Unknown"

\* detect_protocol_arm64
DetectProtocolArm64(buffer) ==
    IF Len(buffer) < 4
    THEN IF buffer # <<>> /\ buffer[1] = 5 THEN "Socks5"
         ELSE IF buffer # <<>> /\ buffer[1] = 22 /\ Len(buffer) >= 3 /\ buffer[2] = 3
              THEN "Tls"
         ELSE "Unknown"
    ELSE DetectSimd(buffer)

\* The public entry points of the detector: detect_simd, detect_protocol_arm64.
DetectEntries == {"simd", "arm64"}

\* What the entry point returns for the buffer.
DetectBy(entry, buffer) ==
    IF entry = "simd" THEN DetectSimd(buffer) ELSE DetectProtocolArm64(buffer)

\* A caller runs one entry point on the buffer it holds.
DetectCall(entry) ==
    /\ dres[entry] = "none"
    /\ dres' = [dres EXCEPT ![entry] = DetectBy(entry, dbuf)]
    /\ UNCHANGED <<sockVars, relayVars, uniVars, hVars, chanVars, dbuf,
                   regVars, bindVars, lateVars>>

CallDetectSimd == DetectCall("simd")

CallDetectProtocolArm64 == DetectCall("arm64")

\* "GET /chat HTTP/1.1\r\nupgrade: websocket\r\n"
D_GetWsLower ==
    << 71, 69, 84, 32, 47, 99, 104, 97, 116, 32, 72, 84, 84, 80, 47,
       49, 46, 49, 13, 10, 117, 112, 103, 114, 97, 100, 101, 58, 32,
       119, 101, 98, 115, 111, 99, 107, 101, 116, 13, 10 >>

\* "GET /chat HTTP/1.1\r\nUpgrade: websocket\r\n"
D_GetWsUpper ==
    << 71, 69, 84, 32, 47, 99, 104, 97, 116, 32, 72, 84, 84, 80, 47,
       49, 46, 49, 13, 10, 85, 112, 103, 114, 97, 100, 101, 58, 32,
       119, 101, 98, 115, 111, 99, 107, 101, 116, 13, 10 >>

\* "GET / HTTP/1.1\r\n\r\n" (run_basic_tests)
D_GetPlain ==
    << 71, 69, 84, 32, 47, 32, 72, 84, 84, 80, 47, 49, 46, 49, 13, 10,
       13, 10 >>

\* "PRI * HTTP/2.0\r\n\r\nSM\r\n\r\n"
D_H2Preface ==
    << 80, 82, 73, 32, 42, 32, 72, 84, 84, 80, 47, 50, 46, 48, 13, 10,
       13, 10, 83, 77, 13, 10, 13, 10 >>

\* "GETindex.html HTTP/1.1\r\n": run_basic_tests' "GETindex", and longer
D_GETindex ==
    << 71, 69, 84, 105, 110, 100, 101, 120, 46, 104, 116, 109, 108,
       32, 72, 84, 84, 80, 47, 49, 46, 49, 13, 10 >>

\* "TRACE / HTTP/1.1\r\n\r\n"
D_Trace ==
    << 84, 82, 65, 67, 69, 32, 47, 32, 72, 84, 84, 80, 47, 49, 46, 49,
       13, 10, 13, 10 >>

\* "PROXY TCP4 1.2.3.4"
D_Proxy ==
    << 80, 82, 79, 88, 89, 32, 84, 67, 80, 52, 32, 49, 46, 50, 46, 51,
       46, 52 >>

\* A TLS 1.3 record header (16 03 04 00 10, run_basic_tests) and what follows
D_Tls13 ==
    << 22, 3, 4, 0, 16, 1, 0, 0, 12, 3, 3, 0, 0, 0, 0, 0, 0 >>

\* The same with a third byte above 0x04
D_TlsBadVersion ==
    << 22, 3, 5, 0, 16, 1, 0, 0, 12, 3, 3, 0, 0, 0, 0, 0, 0 >>

\* run_basic_tests: Random
D_Random ==
    << 222, 173, 190, 239 >>

\* run_basic_tests: SOCKS5 multi-auth
D_Socks5 ==
    << 5, 3, 0, 1, 2 >>

DetectStems ==
    { D_GetWsLower, D_GetWsUpper, D_GetPlain, D_H2Preface, D_GETindex, D_Trace,
      D_Proxy, D_Tls13, D_TlsBadVersion, D_Random, D_Socks5 }

\* The buffers a caller holds: what has arrived of a client's first bytes.
DetectBuffers == { Take(st, n) : st \in DetectStems, n \in 0..40 }

InitDetect ==
    /\ dbuf \in DetectBuffers
    /\ dres = NoResult
    /\ rcvq = [s \in Side |-> <<>>]
    /\ peerClosed = [s \in Side |-> FALSE]
    /\ sent = [s \in Side |-> <<>>]
    /\ sockOpen = [s \in Side |-> FALSE]
    /\ RelayIdle
    /\ UniIdle
    /\ HandlerIdle
    /\ ChannelIdle
    /\ RegistryIdle
    /\ BindIdle
    /\ LateIdle

NextDetect ==
    \/ CallDetectSimd
    \/ CallDetectProtocolArm64

SpecDetect == InitDetect /\ [][NextDetect]_vars

----------------------------------------------------------------------------
(* Relay engine: relay_streams                                              *)

\* Largest payload a peer sends during a relay.
MaxPayload == 2

\* Capacity of the copy future's buffer, in bytes.
CopyBufLen == 2

RelayBytes == {65, 66}

Other(d) == IF d = "c2r" THEN "r2c" ELSE "c2r"

\* Both copies read the client.
SrcOfClient(d) == "client"

\* client_to_remote = copy(client_reader, remote_writer), and the converse.
SrcOf(d) == IF d = "c2r" THEN "client" ELSE "remote"

DstOf(d) == IF d = "c2r" THEN "remote" ELSE "client"

Running(s) == s \in {"copying", "read_done"}

\* Bytes the relay has written to a side since it started.
RelayWritten(d) == Drop(sent[DstOf(d)], rbase[DstOf(d)])

\* relay_streams(client, remote): both copy futures are created and polled
\* under select!.
RelayStart ==
    /\ rpc' = "relaying"
    /\ rst' = [d \in Dir |-> "copying"]
    /\ rbuf' = [d \in Dir |-> <<>>]
    /\ rread' = [d \in Dir |-> <<>>]
    /\ rbase' = [s \in Side |-> Len(sent'[s])]

\* copy: poll_read of the source half returns n > 0 bytes into the buffer.
RelayRead(d) ==
    /\ rpc = "relaying"
    /\ rst[d] = "copying"
    /\ Len(rbuf[d]) < CopyBufLen
    /\ rcvq[SrcOf(d)] # <<>>
    /\ \E n \in 1..Min(CopyBufLen - Len(rbuf[d]), Len(rcvq[SrcOf(d)])) :
          /\ rbuf' = [rbuf EXCEPT ![d] = @ \o Take(rcvq[SrcOf(d)], n)]
          /\ rread' = [rread EXCEPT ![d] = @ \o Take(rcvq[SrcOf(d)], n)]
          /\ rcvq' = [rcvq EXCEPT ![SrcOf(d)] = Drop(@, n)]
    /\ UNCHANGED <<peerClosed, sent, sockOpen, rpc, rst, rbase, uniVars, chanVars, unitVars, hVars>>

\* copy: poll_read returns 0 bytes (EOF): read_done is set.
RelayReadEof(d) ==
    /\ rpc = "relaying"
    /\ rst[d] = "copying"
    /\ rcvq[SrcOf(d)] = <<>>
    /\ peerClosed[SrcOf(d)]
    /\ rst' = [rst EXCEPT ![d] = "read_done"]
    /\ UNCHANGED <<sockVars, rpc, rbuf, rread, rbase, uniVars, chanVars, unitVars, hVars>>

\* copy: poll_write of the destination half accepts n > 0 buffered bytes.
RelayWrite(d) ==
    /\ rpc = "relaying"
    /\ Running(rst[d])
    /\ rbuf[d] # <<>>
    /\ \E n \in 1..Len(rbuf[d]) :
          /\ sent' = [sent EXCEPT ![DstOf(d)] = @ \o Take(rbuf[d], n)]
          /\ rbuf' = [rbuf EXCEPT ![d] = Drop(@, n)]
    /\ UNCHANGED <<rcvq, peerClosed, sockOpen, rpc, rst, rread, rbase, uniVars, chanVars, unitVars, hVars>>

\* select!: the branch of direction d has completed with outcome `how`; the
\* other future is dropped where it stands, relay_streams returns Ok(()) and
\* drops both streams, which it owns.
RelayReturn(d, how) ==
    /\ rpc' = "returned"
    /\ rst' = [e \in Dir |-> IF e = d THEN how
                             ELSE IF Running(rst[e]) THEN "cancelled" ELSE rst[e]]
    /\ sockOpen' = [s \in Side |-> FALSE]
    /\ UNCHANGED <<rcvq, peerClosed, sent, rbuf, rread, rbase, uniVars, chanVars, unitVars, hVars>>

\* copy: everything read has been written and the source is at EOF: the
\* writer is flushed and the future is Ready(Ok).
RelayCopyDone(d) ==
    /\ rpc = "relaying"
    /\ rst[d] = "read_done"
    /\ rbuf[d] = <<>>
    /\ RelayReturn(d, "eof")

\* copy: a read or a write fails: the future is Ready(Err).
RelayCopyError(d) ==
    /\ rpc = "relaying"
    /\ Running(rst[d])
    /\ RelayReturn(d, "err")

InitRelay ==
    /\ rcvq \in [Side -> SeqsUpTo(RelayBytes, MaxPayload)]
    /\ peerClosed \in [Side -> BOOLEAN]
    /\ sent = [s \in Side |-> <<>>]
    /\ sockOpen = [s \in Side |-> TRUE]
    /\ rpc = "relaying"
    /\ rst = [d \in Dir |-> "copying"]
    /\ rbuf = [d \in Dir |-> <<>>]
    /\ rread = [d \in Dir |-> <<>>]
    /\ rbase = [s \in Side |-> 0]
    /\ UniIdle
    /\ HandlerIdle
    /\ ChannelIdle
    /\ UnitIdle

NextRelay ==
    \/ \E d \in Dir : RelayRead(d)
    \/ \E d \in Dir : RelayReadEof(d)
    \/ \E d \in Dir : RelayWrite(d)
    \/ \E d \in Dir : RelayCopyDone(d)
    \/ \E d \in Dir : RelayCopyError(d)

SpecRelay == InitRelay /\ [][NextRelay]_vars

----------------------------------------------------------------------------
(* Universal listener: the connection from accept to the handler           *)

\* Longest run of arbitrary bytes that follows a stem in a client stream.
MaxTail == 2

\* An ASCII byte, a UTF-8 lead byte and a UTF-8 continuation byte.
TailBytes == {32, 195, 169}

B_GET16    == <<71, 69, 84, 32, 47, 32, 72, 84, 84, 80, 47, 49, 46, 49, 13, 10>>
B_GETindex == <<71, 69, 84, 105, 110, 100, 101, 120>>
B_GETPAC   == <<71, 69, 84, 32, 47, 112, 114, 111, 120, 121, 46, 112, 97, 99>>
B_SSH      == <<83, 83, 72, 45>>
B_GETWPAD  == <<71, 69, 84, 32, 47, 119, 112, 97, 100, 46, 100, 97, 116>>
B_Filler   == [i \in 1..NeonLen |-> 120]

UniStems ==
    { <<5>>, <<5, 1, 0>>, <<22, 3>>, <<22, 3, 1>>, B_GET, B_GET16, B_GETindex,
      B_GETPAC, B_GETWPAD, B_CONNECT, B_PROXY, B_H2, B_SSH }

\* The byte streams a client sends in the model.
UniStreams ==
    { s \o t : s \in UniStems, t \in SeqsUpTo(TailBytes, MaxTail) \cup {B_Filler} }
        \cup {<<>>}

\* A peek that takes the bytes it returns off the queue, as a read does.
PeekQueueConsuming(q, n) == Drop(q, n)

\* TcpStream::peek leaves the receive queue as it was.
PeekQueue(q, n) == q

\* handle_universal_connection: peek into the 64-byte buffer, run the
\* detection chain on data = &buffer[..n] and call the handler it selects
\* (or return: Ok for TLS, Err for an unknown binary protocol).
UPeekDispatch ==
    /\ upc = "accepted"
    /\ rcvq["client"] # <<>>
    /\ \E n \in 1..Min(PeekLen, Len(rcvq["client"])) :
          /\ peeked' = Take(rcvq["client"], n)
          /\ rcvq' = [rcvq EXCEPT !["client"] = PeekQueue(@, n)]
          /\ upc' = UniversalRoute(Take(rcvq["client"], n))
          /\ sockOpen' = [sockOpen EXCEPT !["client"] =
                            UniversalRoute(Take(rcvq["client"], n))
                                \notin {"closed", "failed"}]
    /\ UNCHANGED <<peerClosed, sent, relayVars, hVars, chanVars, unitVars, cliStream, hread>>

\* peek returns n = 0 (the client closed without sending): return Ok(()).
UPeekEof ==
    /\ upc = "accepted"
    /\ rcvq["client"] = <<>>
    /\ peerClosed["client"]
    /\ upc' = "closed"
    /\ sockOpen' = [sockOpen EXCEPT !["client"] = FALSE]
    /\ UNCHANGED <<rcvq, peerClosed, sent, relayVars, hVars, chanVars, unitVars, cliStream, peeked, hread>>

\* stream.peek(&mut buffer).await? fails.
UPeekError ==
    /\ upc = "accepted"
    /\ upc' = "failed"
    /\ sockOpen' = [sockOpen EXCEPT !["client"] = FALSE]
    /\ UNCHANGED <<rcvq, peerClosed, sent, relayVars, hVars, chanVars, unitVars, cliStream, peeked, hread>>

InHandler == upc \in {"handle_socks5", "handle_http", "serve_simple_pac"}

\* The selected handler reads n > 0 bytes from the stream it was given.
HandlerRead ==
    /\ upc \in {"handle_socks5", "handle_http"}
    /\ rcvq["client"] # <<>>
    /\ \E n \in 1..Len(rcvq["client"]) :
          /\ hread' = hread \o Take(rcvq["client"], n)
          /\ rcvq' = [rcvq EXCEPT !["client"] = Drop(@, n)]
    /\ UNCHANGED <<peerClosed, sent, sockOpen, relayVars, hVars, chanVars, unitVars, cliStream, upc, peeked>>

\* The handler's read meets the end of the stream.
HandlerReadEof ==
    /\ upc \in {"handle_socks5", "handle_http"}
    /\ rcvq["client"] = <<>>
    /\ peerClosed["client"]
    /\ upc' = "handler_eof"
    /\ sockOpen' = [sockOpen EXCEPT !["client"] = FALSE]
    /\ UNCHANGED <<rcvq, peerClosed, sent, relayVars, hVars, chanVars, unitVars, cliStream, peeked, hread>>

\* The handler returns and drops the stream, read to the end or not.
HandlerReturn ==
    /\ InHandler
    /\ upc' = "closed"
    /\ sockOpen' = [sockOpen EXCEPT !["client"] = FALSE]
    /\ UNCHANGED <<rcvq, peerClosed, sent, relayVars, hVars, chanVars, unitVars, cliStream, peeked, hread>>

\* pac_content, the FindProxyForURL script.
B_PacContent == <<102, 117, 110, 99, 116, 105, 111, 110, 32, 70, 105, 110,
    100, 80, 114, 111, 120, 121, 70, 111, 114, 85, 82, 76, 40, 117, 114, 108,
    44, 32, 104, 111, 115, 116, 41, 32, 123, 10, 32, 32, 32, 32, 47, 47, 32,
    83, 105, 109, 112, 108, 101, 32, 80, 65, 67, 32, 99, 111, 110, 102, 105,
    103, 117, 114, 97, 116, 105, 111, 110, 10, 32, 32, 32, 32, 105, 102, 32,
    40, 104, 111, 115, 116, 32, 61, 61, 32, 34, 108, 111, 99, 97, 108, 104,
    111, 115, 116, 34, 32, 124, 124, 32, 10, 32, 32, 32, 32, 32, 32, 32, 32,
    104, 111, 115, 116, 32, 61, 61, 32, 34, 49, 50, 55, 46, 48, 46, 48, 46,
    49, 34, 32, 124, 124, 32, 10, 32, 32, 32, 32, 32, 32, 32, 32, 105, 115,
    73, 110, 78, 101, 116, 40, 104, 111, 115, 116, 44, 32, 34, 49, 50, 55, 46,
    48, 46, 48, 46, 48, 34, 44, 32, 34, 50, 53, 53, 46, 48, 46, 48, 46, 48,
    34, 41, 41, 32, 123, 10, 32, 32, 32, 32, 32, 32, 32, 32, 114, 101, 116,
    117, 114, 110, 32, 34, 68, 73, 82, 69, 67, 84, 34, 59, 10, 32, 32, 32, 32,
    125, 10, 32, 32, 32, 32, 10, 32, 32, 32, 32, 47, 47, 32, 80, 114, 105,
    118, 97, 116, 101, 32, 110, 101, 116, 119, 111, 114, 107, 32, 98, 121,
    112, 97, 115, 115, 10, 32, 32, 32, 32, 105, 102, 32, 40, 105, 115, 73,
    110, 78, 101, 116, 40, 104, 111, 115, 116, 44, 32, 34, 49, 48, 46, 48, 46,
    48, 46, 48, 34, 44, 32, 34, 50, 53, 53, 46, 48, 46, 48, 46, 48, 34, 41,
    32, 124, 124, 10, 32, 32, 32, 32, 32, 32, 32, 32, 105, 115, 73, 110, 78,
    101, 116, 40, 104, 111, 115, 116, 44, 32, 34, 49, 55, 50, 46, 49, 54, 46,
    48, 46, 48, 34, 44, 32, 34, 50, 53, 53, 46, 50, 52, 48, 46, 48, 46, 48,
    34, 41, 32, 124, 124, 10, 32, 32, 32, 32, 32, 32, 32, 32, 105, 115, 73,
    110, 78, 101, 116, 40, 104, 111, 115, 116, 44, 32, 34, 49, 57, 50, 46, 49,
    54, 56, 46, 48, 46, 48, 34, 44, 32, 34, 50, 53, 53, 46, 50, 53, 53, 46,
    48, 46, 48, 34, 41, 41, 32, 123, 10, 32, 32, 32, 32, 32, 32, 32, 32, 114,
    101, 116, 117, 114, 110, 32, 34, 68, 73, 82, 69, 67, 84, 34, 59, 10, 32,
    32, 32, 32, 125, 10, 32, 32, 32, 32, 10, 32, 32, 32, 32, 47, 47, 32, 68,
    101, 102, 97, 117, 108, 116, 32, 112, 114, 111, 120, 121, 32, 99, 104, 97,
    105, 110, 32, 119, 105, 116, 104, 32, 102, 97, 108, 108, 98, 97, 99, 107,
    10, 32, 32, 32, 32, 114, 101, 116, 117, 114, 110, 32, 34, 80, 82, 79, 88,
    89, 32, 49, 50, 55, 46, 48, 46, 48, 46, 49, 58, 56, 48, 56, 48, 59, 32,
    83, 79, 67, 75, 83, 53, 32, 49, 50, 55, 46, 48, 46, 48, 46, 49, 58, 49,
    48, 56, 48, 59, 32, 68, 73, 82, 69, 67, 84, 34, 59, 10, 125>>

\* "HTTP/1.1 200 OK\r\nContent-Type: application/x-ns-proxy-autoconfig\r\n
\* Content-Length: "
B_PacHead == <<72, 84, 84, 80, 47, 49, 46, 49, 32, 50, 48, 48, 32, 79, 75, 13,
    10, 67, 111, 110, 116, 101, 110, 116, 45, 84, 121, 112, 101, 58, 32, 97,
    112, 112, 108, 105, 99, 97, 116, 105, 111, 110, 47, 120, 45, 110, 115, 45,
    112, 114, 111, 120, 121, 45, 97, 117, 116, 111, 99, 111, 110, 102, 105,
    103, 13, 10, 67, 111, 110, 116, 101, 110, 116, 45, 76, 101, 110, 103, 116,
    104, 58, 32>>

\* "\r\nCache-Control: max-age=3600\r\n\r\n"
B_PacHeadEnd == <<13, 10, 67, 97, 99, 104, 101, 45, 67, 111, 110, 116, 114,
    111, 108, 58, 32, 109, 97, 120, 45, 97, 103, 101, 61, 51, 54, 48, 48, 13,
    10, 13, 10>>

\* The decimal digits of n, as format!("{}", n) writes them.
RECURSIVE DecDigits(_)
DecDigits(n) == IF n < 10 THEN <<48 + n>> ELSE DecDigits(n \div 10) \o <<48 + (n % 10)>>

\* format!(...) of serve_simple_pac: headers, empty line, the script.
PacResponse == B_PacHead \o DecDigits(Len(B_PacContent)) \o B_PacHeadEnd \o B_PacContent

\* serve_simple_pac: the response is written and the stream is dropped; no
\* byte is read and no upstream is dialed.
ServeSimplePac ==
    /\ upc = "serve_simple_pac"
    /\ sent' = [sent EXCEPT !["client"] = @ \o PacResponse]
    /\ upc' = "closed"
    /\ sockOpen' = [sockOpen EXCEPT !["client"] = FALSE]
    /\ UNCHANGED <<rcvq, peerClosed, relayVars, hVars, chanVars, unitVars, cliStream, peeked, hread>>

InitUniversal ==
    /\ cliStream \in UniStreams
    /\ rcvq = [s \in Side |-> IF s = "client" THEN cliStream ELSE <<>>]
    /\ peerClosed \in { [s \in Side |-> IF s = "client" THEN b ELSE FALSE] :
                        b \in BOOLEAN }
    /\ sent = [s \in Side |-> <<>>]
    /\ sockOpen = [s \in Side |-> s = "client"]
    /\ upc = "accepted"
    /\ peeked = <<>>
    /\ hread = <<>>
    /\ RelayIdle
    /\ HandlerIdle
    /\ ChannelIdle
    /\ UnitIdle

NextUniversal ==
    \/ UPeekDispatch
    \/ UPeekEof
    \/ UPeekError
    \/ HandlerRead
    \/ HandlerReadEof
    \/ HandlerReturn
    \/ ServeSimplePac

SpecUniversal == InitUniversal /\ [][NextUniversal]_vars

\* The steps the connection's task takes by itself once it can.
UniversalProgress ==
    \/ UPeekDispatch \/ UPeekEof \/ HandlerRead \/ HandlerReadEof \/ HandlerReturn
    \/ ServeSimplePac

\* The tokio runtime polls a spawned task whenever it can make progress.
SpecUniversalFair == SpecUniversal /\ WF_vars(UniversalProgress)

----------------------------------------------------------------------------
(* Handlers: what handle_socks5 and handle_http share                       *)

\* The handler returns: the streams it owns are dropped.
CloseAll == sockOpen' = [s \in Side |-> FALSE]

\* Error kinds connect_to_target can return: its own (InvalidInput, NotFound,
\* TimedOut) and those of TcpStream::connect and lookup_host.
DialErrs ==
    { "InvalidInput", "NotFound", "TimedOut", "ConnectionRefused",
      "HostUnreachable", "NetworkUnreachable", "Other" }

\* Local addresses the upstream socket can be bound to.
LocalAddrs ==
    { [fam |-> "v4", ip |-> <<10, 0, 0, 2>>, port |-> 4660],
      [fam |-> "v6", ip |-> [i \in 1..16 |-> IF i = 16 THEN 1 ELSE 0], port |-> 4660] }

\* SocketAddr::new(IpAddr::V4(Ipv4Addr::UNSPECIFIED), 0)
UnspecifiedAddr == [fam |-> "v4", ip |-> <<0, 0, 0, 0>>, port |-> 0]

\* What the upstream sends once connected.
UpstreamPayloads == { <<>>, <<66, 65>> }

\* u16::to_be_bytes / u16::from_be_bytes
PortBE(port) == <<port \div 256, port % 256>>

FromBE(hi, lo) == hi * 256 + lo

\* The number of bytes the read_exact the handler stands at asks for.
HNeed ==
    CASE hpc = "s5_greeting"    -> 2
      [] hpc = "s5_methods"     -> hloc.nmethods
      [] hpc = "s5_request"     -> 4
      [] hpc = "s5_addr_v4"     -> 6
      [] hpc = "s5_addr_len"    -> 1
      [] hpc = "s5_addr_domain" -> hloc.domlen
      [] hpc = "s5_addr_port"   -> 2
      [] hpc = "s5_addr_v6"     -> 18
      [] OTHER                  -> 0

ReadExactStates ==
    { "s5_greeting", "s5_methods", "s5_request", "s5_addr_v4", "s5_addr_len",
      "s5_addr_domain", "s5_addr_port", "s5_addr_v6" }

WriteStates ==
    { "s5_method_reply", "s5_cmd_reply", "s5_success_reply", "s5_fail_reply",
      "http_200", "http_502", "http_replay" }

\* read_exact has its bytes: they leave the queue.
ReadExact(state) ==
    /\ hpc = state
    /\ Len(rcvq["client"]) >= HNeed
    /\ rcvq' = [rcvq EXCEPT !["client"] = Drop(@, HNeed)]

ReadBuf == Take(rcvq["client"], HNeed)

\* read_exact meets the end of the stream before its buffer is full
\* (UnexpectedEof); `?` returns the error.
HReadExactEof ==
    /\ hpc \in ReadExactStates
    /\ Len(rcvq["client"]) < HNeed
    /\ peerClosed["client"]
    /\ rcvq' = [rcvq EXCEPT !["client"] = <<>>]
    /\ hpc' = "done_err"
    /\ CloseAll
    /\ UNCHANGED <<peerClosed, sent, relayVars, uniVars, chanVars, unitVars, hloc, hev>>

\* A read or a write of the handshake fails; `?` returns the error.
HIoError ==
    /\ hpc \in ReadExactStates \cup WriteStates \cup {"http_read"}
    /\ hpc' = "done_err"
    /\ CloseAll
    /\ UNCHANGED <<rcvq, peerClosed, sent, relayVars, uniVars, chanVars, unitVars, hloc, hev>>

\* relay_streams(stream, remote).await? has returned: the handler returns Ok.
HRelayReturned ==
    /\ hpc = "relay"
    /\ rpc = "returned"
    /\ hpc' = "done_ok"
    /\ UNCHANGED <<sockVars, relayVars, uniVars, chanVars, unitVars, hloc, hev>>

----------------------------------------------------------------------------
(* SOCKS5 handler: handle_socks5, read_socks_address                        *)

\* A test of the first method only.
AcceptsNoAuthFirstOnly(methods) == methods # <<>> /\ methods[1] = 0

\* methods.contains(&0)
AcceptsNoAuth(methods) == \E i \in 1..Len(methods) : methods[i] = 0

\* The reply to the greeting.
MethodReply(methods) == IF AcceptsNoAuth(methods) THEN <<5, 0>> ELSE <<5, 255>>

\* The success reply with the port in little-endian order.
SocksSuccessReplyLE(addr) ==
    <<5, 0, 0>> \o (IF addr.fam = "v4" THEN <<1>> ELSE <<4>>) \o addr.ip
                \o <<addr.port % 256, addr.port \div 256>>

\* resp = [5, 0, 0], then ATYP, the address octets and the port, big-endian.
SocksSuccessReply(addr) ==
    <<5, 0, 0>> \o (IF addr.fam = "v4" THEN <<1>> ELSE <<4>>) \o addr.ip
                \o PortBE(addr.port)

\* The reply written when connect_to_target fails with error `kind`.
SocksDialFailReply(kind) == <<5, 1, 0, 1, 0, 0, 0, 0, 0, 0>>

\* A "general failure" reply in place of "command not supported".
SocksCommandReplyGeneral == <<5, 1, 0, 1, 0, 0, 0, 0, 0, 0>>

\* The reply written when the request is not VER 5, CMD CONNECT.
SocksCommandReply == <<5, 7, 0, 1, 0, 0, 0, 0, 0, 0>>

\* stream.read_exact(&mut buf) of VER, NMETHODS; a version other than 5 is
\* an error returned without a reply.
S5ReadGreeting ==
    /\ ReadExact("s5_greeting")
    /\ IF ReadBuf[1] # 5
       THEN /\ hpc' = "done_err"
            /\ CloseAll
            /\ hloc' = hloc
       ELSE /\ hpc' = "s5_methods"
            /\ hloc' = [hloc EXCEPT !.nmethods = ReadBuf[2]]
            /\ UNCHANGED sockOpen
    /\ UNCHANGED <<peerClosed, sent, relayVars, uniVars, chanVars, unitVars, hev>>

\* stream.read_exact(&mut methods)
S5ReadMethods ==
    /\ ReadExact("s5_methods")
    /\ hloc' = [hloc EXCEPT !.methods = ReadBuf]
    /\ hev' = Append(hev, "greeting")
    /\ hpc' = "s5_method_reply"
    /\ UNCHANGED <<peerClosed, sent, sockOpen, relayVars, uniVars, chanVars, unitVars>>

\* The method reply is written: [5, 0xFF] and the error return, or [5, 0].
S5MethodReply ==
    /\ hpc = "s5_method_reply"
    /\ sent' = [sent EXCEPT !["client"] = @ \o MethodReply(hloc.methods)]
    /\ IF MethodReply(hloc.methods) = <<5, 0>>
       THEN /\ hpc' = "s5_request"
            /\ hev' = Append(hev, "method_reply")
            /\ UNCHANGED sockOpen
       ELSE /\ hpc' = "done_err"
            /\ hev' = Append(hev, "no_acceptable_methods")
            /\ CloseAll
    /\ UNCHANGED <<rcvq, peerClosed, relayVars, uniVars, chanVars, unitVars, hloc>>

\* stream.read_exact(&mut buf) of VER, CMD, RSV, ATYP, then the match on
\* atyp in read_socks_address up to its first read.
S5ReadRequest ==
    /\ ReadExact("s5_request")
    /\ hloc' = [hloc EXCEPT !.req = ReadBuf]
    /\ hev' = Append(hev, "request_read")
    /\ IF ReadBuf[1] # 5 \/ ReadBuf[2] # 1
       THEN hpc' = "s5_cmd_reply" /\ UNCHANGED sockOpen
       ELSE CASE ReadBuf[4] = 1 -> hpc' = "s5_addr_v4" /\ UNCHANGED sockOpen
              [] ReadBuf[4] = 3 -> hpc' = "s5_addr_len" /\ UNCHANGED sockOpen
              [] ReadBuf[4] = 4 -> hpc' = "s5_addr_v6" /\ UNCHANGED sockOpen
              [] OTHER -> hpc' = "done_err" /\ CloseAll
    /\ UNCHANGED <<peerClosed, sent, relayVars, uniVars, chanVars, unitVars>>

\* The "command not supported" reply is written, then the error return.
S5CommandReply ==
    /\ hpc = "s5_cmd_reply"
    /\ sent' = [sent EXCEPT !["client"] = @ \o SocksCommandReply]
    /\ hev' = Append(hev, "command_reply")
    /\ hpc' = "done_err"
    /\ CloseAll
    /\ UNCHANGED <<rcvq, peerClosed, relayVars, uniVars, chanVars, unitVars, hloc>>

\* read_socks_address, atyp 1: 4 address bytes and the port.
S5ReadAddrV4 ==
    /\ ReadExact("s5_addr_v4")
    /\ hloc' = [hloc EXCEPT !.target =
                  [fam |-> "v4", ip |-> SubSeq(ReadBuf, 1, 4),
                   port |-> FromBE(ReadBuf[5], ReadBuf[6])]]
    /\ hev' = Append(hev, "request_parsed")
    /\ hpc' = "s5_dial"
    /\ UNCHANGED <<peerClosed, sent, sockOpen, relayVars, uniVars, chanVars, unitVars>>

\* read_socks_address, atyp 3: the length byte.
S5ReadAddrLen ==
    /\ ReadExact("s5_addr_len")
    /\ hloc' = [hloc EXCEPT !.domlen = ReadBuf[1]]
    /\ hpc' = "s5_addr_domain"
    /\ UNCHANGED <<peerClosed, sent, sockOpen, relayVars, uniVars, chanVars, unitVars, hev>>

\* read_socks_address, atyp 3: the domain name.
S5ReadAddrDomain ==
    /\ ReadExact("s5_addr_domain")
    /\ hloc' = [hloc EXCEPT !.target = [fam |-> "domain", ip |-> ReadBuf, port |-> 0]]
    /\ hpc' = "s5_addr_port"
    /\ UNCHANGED <<peerClosed, sent, sockOpen, relayVars, uniVars, chanVars, unitVars, hev>>

\* read_socks_address, atyp 3: the port.
S5ReadAddrPort ==
    /\ ReadExact("s5_addr_port")
    /\ hloc' = [hloc EXCEPT !.target.port = FromBE(ReadBuf[1], ReadBuf[2])]
    /\ hev' = Append(hev, "request_parsed")
    /\ hpc' = "s5_dial"
    /\ UNCHANGED <<peerClosed, sent, sockOpen, relayVars, uniVars, chanVars, unitVars>>

\* read_socks_address, atyp 4: 16 address bytes and the port.
S5ReadAddrV6 ==
    /\ ReadExact("s5_addr_v6")
    /\ hloc' = [hloc EXCEPT !.target =
                  [fam |-> "v6", ip |-> SubSeq(ReadBuf, 1, 16),
                   port |-> FromBE(ReadBuf[17], ReadBuf[18])]]
    /\ hev' = Append(hev, "request_parsed")
    /\ hpc' = "s5_dial"
    /\ UNCHANGED <<peerClosed, sent, sockOpen, relayVars, uniVars, chanVars, unitVars>>

\* connect_to_target succeeds: the upstream socket exists.
DialOk(next) ==
    /\ \E payload \in UpstreamPayloads, closes \in BOOLEAN :
          /\ rcvq' = [rcvq EXCEPT !["remote"] = payload]
          /\ peerClosed' = [peerClosed EXCEPT !["remote"] = closes]
    /\ sockOpen' = [sockOpen EXCEPT !["remote"] = TRUE]
    /\ hev' = Append(hev, "dial_ok")
    /\ hpc' = next
    /\ UNCHANGED <<sent, relayVars, uniVars, chanVars, unitVars>>

\* connect_to_target fails with one of its error kinds.
DialErr(kinds, next) ==
    /\ \E kind \in kinds : hloc' = [hloc EXCEPT !.dialErr = kind]
    /\ hev' = Append(hev, "dial_err")
    /\ hpc' = next
    /\ UNCHANGED <<sockVars, relayVars, uniVars, chanVars, unitVars>>

\* match connect_to_target(&target).await: the target text is "ip:port" or
\* "domain:port" with a numeric port, so InvalidInput cannot be the cause.
\* The upstream socket is bound to a local address; remote.local_addr()
\* gives it, or fails and the unspecified address stands in (unwrap_or).
S5DialOk ==
    /\ hpc = "s5_dial"
    /\ DialOk("s5_success_reply")
    /\ \E local \in LocalAddrs, known \in BOOLEAN :
          hloc' = [hloc EXCEPT !.upLocal = local,
                               !.localAddr = IF known THEN local ELSE UnspecifiedAddr]

S5DialErr == hpc = "s5_dial" /\ DialErr(DialErrs \ {"InvalidInput"}, "s5_fail_reply")

\* stream.write_all(&resp) succeeds and relay_streams(stream, remote) starts.
S5SuccessReply ==
    /\ hpc = "s5_success_reply"
    /\ sent' = [sent EXCEPT !["client"] = @ \o SocksSuccessReply(hloc.localAddr)]
    /\ hev' = hev \o <<"success_reply", "relay">>
    /\ hpc' = "relay"
    /\ RelayStart
    /\ UNCHANGED <<rcvq, peerClosed, sockOpen, uniVars, chanVars, unitVars, hloc>>

\* The failure reply is written, then return Err(e).
S5FailReply ==
    /\ hpc = "s5_fail_reply"
    /\ sent' = [sent EXCEPT !["client"] = @ \o SocksDialFailReply(hloc.dialErr)]
    /\ hev' = Append(hev, "fail_reply")
    /\ hpc' = "done_err"
    /\ CloseAll
    /\ UNCHANGED <<rcvq, peerClosed, relayVars, uniVars, chanVars, unitVars, hloc>>

G_NoAuth   == <<5, 1, 0>>
G_UserPass == <<5, 1, 2>>
G_Two      == <<5, 2, 2, 0>>
G_None     == <<5, 0>>
G_Socks4   == <<4, 1, 0>>
\* VER 5, NMETHODS 255, then the methods 0x00, 0x01, ..., 0xFE.
G_AllMethods == <<5, 255>> \o [i \in 1..255 |-> i - 1]

R_V4       == <<5, 1, 0, 1, 127, 0, 0, 1, 0, 80>>
R_Domain   == <<5, 1, 0, 3, 1, 97, 1, 187>>
R_V6       == <<5, 1, 0, 4>> \o [i \in 1..16 |-> IF i = 16 THEN 1 ELSE 0] \o <<0, 80>>
R_Bind     == <<5, 2, 0, 1, 127, 0, 0, 1, 0, 80>>
R_BadAtyp  == <<5, 1, 0, 9, 127, 0, 0, 1, 0, 80>>
R_BadVer   == <<4, 1, 0, 1, 127, 0, 0, 1, 0, 80>>

Greetings == {G_NoAuth, G_UserPass, G_Two, G_None, G_Socks4, G_AllMethods}

Requests == {R_V4, R_Domain, R_V6, R_Bind, R_BadAtyp, R_BadVer}

\* The byte streams a SOCKS5 client sends in the model: a greeting and a
\* request, whole, cut short, or followed by payload.
SocksStreams ==
    { g \o r : g \in Greetings, r \in Requests }
      \cup { Take(G_NoAuth \o r, k) : r \in {R_V4, R_Domain}, k \in 0..12 }
      \cup { G_NoAuth \o R_V4 \o <<65>>, G_Two \o R_Domain \o <<65, 66>> }

InitSocks ==
    /\ cliStream \in SocksStreams
    /\ rcvq = [s \in Side |-> IF s = "client" THEN cliStream ELSE <<>>]
    /\ peerClosed \in { [s \in Side |-> IF s = "client" THEN b ELSE FALSE] :
                        b \in BOOLEAN }
    /\ sent = [s \in Side |-> <<>>]
    /\ sockOpen = [s \in Side |-> s = "client"]
    /\ upc = "handle_socks5"
    /\ peeked = <<>>
    /\ hread = <<>>
    /\ hpc = "s5_greeting"
    /\ hloc = HLocInit
    /\ hev = <<>>
    /\ RelayIdle
    /\ ChannelIdle
    /\ UnitIdle

NextSocks ==
    \/ S5ReadGreeting
    \/ S5ReadMethods
    \/ S5MethodReply
    \/ S5ReadRequest
    \/ S5CommandReply
    \/ S5ReadAddrV4
    \/ S5ReadAddrLen
    \/ S5ReadAddrDomain
    \/ S5ReadAddrPort
    \/ S5ReadAddrV6
    \/ S5DialOk
    \/ S5DialErr
    \/ S5SuccessReply
    \/ S5FailReply
    \/ HReadExactEof
    \/ HIoError
    \/ HRelayReturned
    \/ \E d \in Dir : RelayRead(d)
    \/ \E d \in Dir : RelayReadEof(d)
    \/ \E d \in Dir : RelayWrite(d)
    \/ \E d \in Dir : RelayCopyDone(d)
    \/ \E d \in Dir : RelayCopyError(d)

SpecSocks == InitSocks /\ [][NextSocks]_vars

\* The steps the handler task takes by itself once it can: every step but
\* the failure of a read or a write, which is the network's doing.
SocksProgress ==
    \/ S5ReadGreeting \/ S5ReadMethods \/ S5MethodReply \/ S5ReadRequest
    \/ S5CommandReply \/ S5ReadAddrV4 \/ S5ReadAddrLen \/ S5ReadAddrDomain
    \/ S5ReadAddrPort \/ S5ReadAddrV6 \/ S5DialOk \/ S5DialErr
    \/ S5SuccessReply \/ S5FailReply \/ HReadExactEof \/ HRelayReturned
    \/ \E d \in Dir : RelayRead(d) \/ RelayReadEof(d) \/ RelayWrite(d) \/ RelayCopyDone(d)

\* The tokio runtime polls a spawned task whenever it can make progress.
SpecSocksFair == SpecSocks /\ WF_vars(SocksProgress)

----------------------------------------------------------------------------
(* HTTP handler: handle_http, connect_to_target                             *)

\* let mut buffer = [0u8; 4096]
HttpBufLen == 4096

B_HostColon == <<104, 111, 115, 116, 58>>
B_Port443   == <<58, 52, 52, 51>>
B_Port80    == <<58, 56, 48>>

\* "HTTP/1.1 200 Connection established\r\n\r\n"
B_200 == <<72, 84, 84, 80, 47, 49, 46, 49, 32, 50, 48, 48, 32, 67, 111, 110,
    110, 101, 99, 116, 105, 111, 110, 32, 101, 115, 116, 97, 98, 108, 105,
    115, 104, 101, 100, 13, 10, 13, 10>>

\* "HTTP/1.1 502 Bad Gateway\r\n\r\n"
B_502 == <<72, 84, 84, 80, 47, 49, 46, 49, 32, 53, 48, 50, 32, 66, 97, 100,
    32, 71, 97, 116, 101, 119, 97, 121, 13, 10, 13, 10>>

\* A handler that answers 200 whatever the dial's outcome.
HttpConnectReplyAlways200(ok) == B_200

\* The response to CONNECT after connect_to_target returned Ok (ok) or Err.
HttpConnectReply(ok) == IF ok THEN B_200 ELSE B_502

\* str::from_utf8(&buffer[..n]).unwrap_or("")
RequestStr(req) == IF Utf8Valid(req) THEN req ELSE <<>>

\* request_str.lines().find(|l| l.to_lowercase().starts_with("host:"))
HostLines(str) ==
    SelectSeq(Lines(str), LAMBDA l : StartsWith(ToLower(l), B_HostColon))

\* host_line.split(':').nth(1).map(|s| s.trim())
HostOfLine(line) ==
    LET rest == Drop(line, RunLen(line, {58}) + 1)
    IN  Trim(Take(rest, RunLen(rest, {58})))

\* The branch handle_http takes on the request and the target it dials.
HttpRoute(str) ==
    IF StartsWith(str, B_CONNECT)
    THEN IF Len(SplitWs(str)) >= 2
         THEN LET host == SplitWs(str)[2]
              IN  [ kind |-> "connect",
                    target |-> IF \E i \in 1..Len(host) : host[i] = 58
                               THEN host ELSE host \o B_Port443 ]
         ELSE [kind |-> "none", target |-> <<>>]
    ELSE IF HostLines(str) # <<>>
         THEN [kind |-> "forward", target |-> HostOfLine(HostLines(str)[1]) \o B_Port80]
         ELSE [kind |-> "none", target |-> <<>>]

\* The port text is not parsed: any target with a ':' is accepted.
TargetParsesAnyPort(target) == LastIndex(target, 58) > 0

\* connect_to_target: rsplit_once(':') and the port parse accept the target.
TargetParses(target) ==
    /\ LastIndex(target, 58) > 0
    /\ ParsesU16(Drop(target, LastIndex(target, 58)))

\* stream.read(&mut buffer) returns n > 0 bytes; the request is parsed and
\* the handler returns or goes on to connect_to_target.
HttpRead ==
    /\ hpc = "http_read"
    /\ rcvq["client"] # <<>>
    /\ \E n \in 1..Min(HttpBufLen, Len(rcvq["client"])) :
          \E route \in {HttpRoute(RequestStr(Take(rcvq["client"], n)))} :
              /\ rcvq' = [rcvq EXCEPT !["client"] = Drop(@, n)]
              /\ hloc' = [hloc EXCEPT !.request = Take(rcvq["client"], n),
                                      !.text = route.target]
              /\ hev' = Append(hev, route.kind)
              /\ CASE route.kind = "connect" ->
                        hpc' = "http_connect_dial" /\ UNCHANGED sockOpen
                   [] route.kind = "forward" ->
                        hpc' = "http_forward_dial" /\ UNCHANGED sockOpen
                   [] OTHER -> hpc' = "done_ok" /\ CloseAll
    /\ UNCHANGED <<peerClosed, sent, relayVars, uniVars, chanVars, unitVars>>

\* stream.read returns n = 0: return Ok(()).
HttpReadEof ==
    /\ hpc = "http_read"
    /\ rcvq["client"] = <<>>
    /\ peerClosed["client"]
    /\ hpc' = "done_ok"
    /\ CloseAll
    /\ UNCHANGED <<rcvq, peerClosed, sent, relayVars, uniVars, chanVars, unitVars, hloc, hev>>

\* CONNECT: connect_to_target(&target) returns Ok(remote).
HttpConnectDialOk ==
    /\ hpc = "http_connect_dial"
    /\ TargetParses(hloc.text)
    /\ DialOk("http_200")
    /\ UNCHANGED hloc

\* CONNECT: connect_to_target(&target) returns Err(e).
HttpConnectDialErr ==
    /\ hpc = "http_connect_dial"
    /\ DialErr(IF TargetParses(hloc.text) THEN DialErrs ELSE {"InvalidInput"},
               "http_502")

\* The 200 is written and relay_streams(stream, remote) starts.
Http200 ==
    /\ hpc = "http_200"
    /\ sent' = [sent EXCEPT !["client"] = @ \o HttpConnectReply(TRUE)]
    /\ hev' = hev \o <<"200", "relay">>
    /\ hpc' = "relay"
    /\ RelayStart
    /\ UNCHANGED <<rcvq, peerClosed, sockOpen, uniVars, chanVars, unitVars, hloc>>

\* The 502 is written; the handler returns Ok(()).
Http502 ==
    /\ hpc = "http_502"
    /\ sent' = [sent EXCEPT !["client"] = @ \o HttpConnectReply(FALSE)]
    /\ hev' = Append(hev, "502")
    /\ hpc' = "done_ok"
    /\ CloseAll
    /\ UNCHANGED <<rcvq, peerClosed, relayVars, uniVars, chanVars, unitVars, hloc>>

\* Forward proxying: connect_to_target(&target) returns Ok(remote).
HttpForwardDialOk ==
    /\ hpc = "http_forward_dial"
    /\ TargetParses(hloc.text)
    /\ DialOk("http_replay")
    /\ UNCHANGED hloc

\* Forward proxying: connect_to_target fails; the error is logged and the
\* handler returns Ok(()).
HttpForwardDialErr ==
    /\ hpc = "http_forward_dial"
    /\ \E kind \in (IF TargetParses(hloc.text) THEN DialErrs ELSE {"InvalidInput"}) :
          hloc' = [hloc EXCEPT !.dialErr = kind]
    /\ hev' = Append(hev, "dial_err")
    /\ hpc' = "done_ok"
    /\ CloseAll
    /\ UNCHANGED <<rcvq, peerClosed, sent, relayVars, uniVars, chanVars, unitVars>>

\* remote.write_all(&buffer[..n]) and relay_streams(stream, remote) starts.
HttpReplay ==
    /\ hpc = "http_replay"
    /\ sent' = [sent EXCEPT !["remote"] = @ \o hloc.request]
    /\ hev' = hev \o <<"replay", "relay">>
    /\ hpc' = "relay"
    /\ RelayStart
    /\ UNCHANGED <<rcvq, peerClosed, sockOpen, uniVars, chanVars, unitVars, hloc>>

\* "CONNECT h:1 HTTP/1.1\r\n\r\n"
Q_Connect == <<67, 79, 78, 78, 69, 67, 84, 32, 104, 58, 49, 32, 72, 84, 84,
    80, 47, 49, 46, 49, 13, 10, 13, 10>>
\* "CONNECT h HTTP/1.1\r\n\r\n"
Q_ConnectNoPort == <<67, 79, 78, 78, 69, 67, 84, 32, 104, 32, 72, 84, 84, 80,
    47, 49, 46, 49, 13, 10, 13, 10>>
\* "CONNECT h:x HTTP/1.1\r\n\r\n"
Q_ConnectBadPort == <<67, 79, 78, 78, 69, 67, 84, 32, 104, 58, 120, 32, 72,
    84, 84, 80, 47, 49, 46, 49, 13, 10, 13, 10>>
\* "CONNECT "
Q_ConnectBare == <<67, 79, 78, 78, 69, 67, 84, 32>>
\* "CONNECT [::1]:443 HTTP/1.1\r\n\r\n"
Q_ConnectV6 == <<67, 79, 78, 78, 69, 67, 84, 32, 91, 58, 58, 49, 93, 58, 52,
    52, 51, 32, 72, 84, 84, 80, 47, 49, 46, 49, 13, 10, 13, 10>>
\* "GET / HTTP/1.1\r\nHost: h\r\n\r\n"
Q_Get == <<71, 69, 84, 32, 47, 32, 72, 84, 84, 80, 47, 49, 46, 49, 13, 10, 72,
    111, 115, 116, 58, 32, 104, 13, 10, 13, 10>>
\* "GET / HTTP/1.1\r\nHOST: h:8080\r\n\r\n"
Q_GetHostPort == <<71, 69, 84, 32, 47, 32, 72, 84, 84, 80, 47, 49, 46, 49, 13,
    10, 72, 79, 83, 84, 58, 32, 104, 58, 56, 48, 56, 48, 13, 10, 13, 10>>
\* "GET / HTTP/1.1\r\n\r\n"
Q_GetNoHost == <<71, 69, 84, 32, 47, 32, 72, 84, 84, 80, 47, 49, 46, 49, 13,
    10, 13, 10>>

\* "GET / HTTP/1.1\r\nHost: ab\r\n\r\n"
Q_GetHost2 == <<71, 69, 84, 32, 47, 32, 72, 84, 84, 80, 47, 49, 46, 49, 13,
    10, 72, 111, 115, 116, 58, 32, 97, 98, 13, 10, 13, 10>>
\* "GET / HTTP/1.1\r\nHost: [::1]\r\n\r\n"
Q_GetHostV6 == <<71, 69, 84, 32, 47, 32, 72, 84, 84, 80, 47, 49, 46, 49, 13,
    10, 72, 111, 115, 116, 58, 32, 91, 58, 58, 49, 93, 13, 10, 13, 10>>
\* "CONNECT [::1] HTTP/1.1\r\n\r\n"
Q_ConnectV6NoPort == <<67, 79, 78, 78, 69, 67, 84, 32, 91, 58, 58, 49, 93, 32,
    72, 84, 84, 80, 47, 49, 46, 49, 13, 10, 13, 10>>
\* "GET / HTTP/1.1\r\nX: ", the start of a header section
Q_OversizeHead == <<71, 69, 84, 32, 47, 32, 72, 84, 84, 80, 47, 49, 46, 49,
    13, 10, 88, 58, 32>>
\* A request whose header section fills the 4096-byte buffer without ending.
Q_Oversize == Q_OversizeHead \o [i \in 1..(HttpBufLen - Len(Q_OversizeHead)) |-> 120]

\* The byte streams an HTTP client sends in the model; the last three are a
\* request followed by payload, bytes that are not UTF-8, and nothing.
HttpStreams ==
    { Q_Connect, Q_ConnectNoPort, Q_ConnectBadPort, Q_ConnectBare, Q_ConnectV6,
      Q_Get, Q_GetHostPort, Q_GetNoHost, Q_GetHost2, Q_GetHostV6,
      Q_ConnectV6NoPort, Q_Connect \o <<65, 66>>, <<67, 255>>, <<>> }

InitHttp ==
    /\ cliStream \in HttpStreams
    /\ rcvq = [s \in Side |-> IF s = "client" THEN cliStream ELSE <<>>]
    /\ peerClosed \in { [s \in Side |-> IF s = "client" THEN b ELSE FALSE] :
                        b \in BOOLEAN }
    /\ sent = [s \in Side |-> <<>>]
    /\ sockOpen = [s \in Side |-> s = "client"]
    /\ upc = "handle_http"
    /\ peeked = <<>>
    /\ hread = <<>>
    /\ hpc = "http_read"
    /\ hloc = HLocInit
    /\ hev = <<>>
    /\ RelayIdle
    /\ ChannelIdle
    /\ UnitIdle

NextHttp ==
    \/ HttpRead
    \/ HttpReadEof
    \/ HttpConnectDialOk
    \/ HttpConnectDialErr
    \/ Http200
    \/ Http502
    \/ HttpForwardDialOk
    \/ HttpForwardDialErr
    \/ HttpReplay
    \/ HIoError
    \/ HRelayReturned
    \/ \E d \in Dir : RelayRead(d)
    \/ \E d \in Dir : RelayReadEof(d)
    \/ \E d \in Dir : RelayWrite(d)
    \/ \E d \in Dir : RelayCopyDone(d)
    \/ \E d \in Dir : RelayCopyError(d)

SpecHttp == InitHttp /\ [][NextHttp]_vars

\* handle_http on a client that may send a header section of 4096 bytes.
InitHttpLarge ==
    /\ cliStream \in {Q_Oversize, Q_Connect, Q_Get, <<>>}
    /\ rcvq = [s \in Side |-> IF s = "client" THEN cliStream ELSE <<>>]
    /\ peerClosed = [s \in Side |-> s = "client"]
    /\ sent = [s \in Side |-> <<>>]
    /\ sockOpen = [s \in Side |-> s = "client"]
    /\ upc = "handle_http"
    /\ peeked = <<>>
    /\ hread = <<>>
    /\ hpc = "http_read"
    /\ hloc = HLocInit
    /\ hev = <<>>
    /\ RelayIdle
    /\ ChannelIdle
    /\ UnitIdle

SpecHttpLarge == InitHttpLarge /\ [][NextHttp]_vars

----------------------------------------------------------------------------
(* Channel manager: ProxyChannel                                            *)

\* config.max_connections, the capacity of the channel table.
MaxChannels == 2

\* What update_channel_stats adds to bytes_transferred per connection.
BytesPerConnection == 1024

IsOpen(n) == chans[n] # NoChannel

\* channels.len() >= self.config.max_connections, above the limit only.
AtCapacityAbove == Cardinality({m \in ChanNames : IsOpen(m)}) > MaxChannels

\* channels.len() >= self.config.max_connections
AtCapacity == Cardinality({m \in ChanNames : IsOpen(m)}) >= MaxChannels

\* What a call returns: the operation, the name, Ok or the error, and for
\* get_stats the ChannelStats.
Returns(op, n, ret, stats) == [op |-> op, name |-> n, ret |-> ret, stats |-> stats]

\* A ChannelState that is not marked active.
FreshChannelInactive ==
    [ active |-> FALSE, connections |-> 0, total_connections |-> 0,
      bytes_transferred |-> 0, errors |-> 0 ]

\* The ChannelState open_channel inserts.
FreshChannel ==
    [ active |-> TRUE, connections |-> 0, total_connections |-> 0,
      bytes_transferred |-> 0, errors |-> 0 ]

\* open_channel(name), Ok(true): the table is below capacity and a fresh
\* state is inserted under the name, replacing the state of an open one.
OpenChannel(n) ==
    /\ ~AtCapacity
    /\ chans' = [chans EXCEPT ![n] = FreshChannel]
    /\ opRet' = Returns("open_channel", n, "Ok(true)", <<>>)
    /\ UNCHANGED <<sockVars, relayVars, uniVars, hVars, unitVars, calls>>

\* open_channel(name), Err(ConnectionFailed): the table is at capacity.
OpenChannelFull(n) ==
    /\ AtCapacity
    /\ opRet' = Returns("open_channel", n, "ConnectionFailed", <<>>)
    /\ UNCHANGED <<sockVars, relayVars, uniVars, hVars, unitVars, chans, calls>>

\* close_channel(name), Ok: the state is removed.
CloseChannel(n) ==
    /\ IsOpen(n)
    /\ chans' = [chans EXCEPT ![n] = NoChannel]
    /\ opRet' = Returns("close_channel", n, "Ok", <<>>)
    /\ UNCHANGED <<sockVars, relayVars, uniVars, hVars, unitVars, calls>>

\* close_channel(name), Err(ProviderNotFound): no such channel.
CloseChannelMissing(n) ==
    /\ ~IsOpen(n)
    /\ opRet' = Returns("close_channel", n, "ProviderNotFound", <<>>)
    /\ UNCHANGED <<sockVars, relayVars, uniVars, hVars, unitVars, chans, calls>>

\* handle_connection(stream, name): the first critical section counts the
\* connection when the channel exists; then stream.peer_addr() is taken,
\* and its failure is returned with `?`.
HandleConnectionStart(c, n, peerAddrOk) ==
    /\ calls[c].pc = "idle"
    /\ chans' = IF IsOpen(n)
                THEN [chans EXCEPT ![n].connections = @ + 1,
                                   ![n].total_connections = @ + 1]
                ELSE chans
    /\ calls' = [calls EXCEPT ![c] =
                   [ pc |-> IF peerAddrOk THEN "stats" ELSE "done_err",
                     chan |-> n, inc |-> IsOpen(n), dec |-> FALSE ]]
    /\ UNCHANGED <<sockVars, relayVars, uniVars, hVars, unitVars, opRet>>

\* update_channel_stats(channel_name, 1024, false)
HandleConnectionStats(c) ==
    /\ calls[c].pc = "stats"
    /\ chans' = IF IsOpen(calls[c].chan)
                THEN [chans EXCEPT ![calls[c].chan].bytes_transferred =
                                        @ + BytesPerConnection]
                ELSE chans
    /\ calls' = [calls EXCEPT ![c].pc = "decrement"]
    /\ UNCHANGED <<sockVars, relayVars, uniVars, hVars, unitVars, opRet>>

\* The last critical section: connections is decremented when the channel
\* exists and the count is positive; Ok(()) is returned.
HandleConnectionFinish(c) ==
    /\ calls[c].pc = "decrement"
    /\ LET n == calls[c].chan
           counts == IsOpen(n) /\ chans[n].connections > 0
       IN  /\ chans' = IF counts THEN [chans EXCEPT ![n].connections = @ - 1]
                       ELSE chans
           /\ calls' = [calls EXCEPT ![c].pc = "done_ok", ![c].dec = counts]
    /\ UNCHANGED <<sockVars, relayVars, uniVars, hVars, unitVars, opRet>>

\* What health_check(name) returns in the current state.
HealthCheck(n) ==
    IF IsOpen(n)
    THEN IF chans[n].active THEN "Ok(true)" ELSE "Ok(false)"
    ELSE "ProviderNotFound"

\* The ChannelStats get_stats(name) builds (uptime_seconds left out).
ChannelStats(n) ==
    [ active_connections |-> chans[n].connections,
      total_connections |-> chans[n].total_connections,
      bytes_transferred |-> chans[n].bytes_transferred,
      errors |-> chans[n].errors ]

\* What get_stats(name) returns in the current state.
GetStats(n) ==
    IF IsOpen(n)
    THEN Returns("get_stats", n, "Ok", <<ChannelStats(n)>>)
    ELSE Returns("get_stats", n, "ProviderNotFound", <<>>)

\* health_check(name), under the read lock.
HealthCheckCall(n) ==
    /\ opRet' = Returns("health_check", n, HealthCheck(n), <<>>)
    /\ UNCHANGED <<sockVars, relayVars, uniVars, hVars, unitVars, chans, calls>>

\* get_stats(name), under the read lock.
GetStatsCall(n) ==
    /\ opRet' = GetStats(n)
    /\ UNCHANGED <<sockVars, relayVars, uniVars, hVars, unitVars, chans, calls>>

InitChannel ==
    /\ ChannelIdle
    /\ rcvq = [s \in Side |-> <<>>]
    /\ peerClosed = [s \in Side |-> FALSE]
    /\ sent = [s \in Side |-> <<>>]
    /\ sockOpen = [s \in Side |-> FALSE]
    /\ RelayIdle
    /\ UniIdle
    /\ HandlerIdle
    /\ UnitIdle

NextChannel ==
    \/ \E n \in CallNames : OpenChannel(n)
    \/ \E n \in CallNames : OpenChannelFull(n)
    \/ \E n \in CallNames : CloseChannel(n)
    \/ \E n \in CallNames : CloseChannelMissing(n)
    \/ \E c \in CallIds, n \in CallNames, ok \in BOOLEAN : HandleConnectionStart(c, n, ok)
    \/ \E c \in CallIds : HandleConnectionStats(c)
    \/ \E c \in CallIds : HandleConnectionFinish(c)

SpecChannel == InitChannel /\ [][NextChannel]_vars

\* The channel table alone: callers open, close and query every name
\* (health_check and get_stats only read the table), and no connection is
\* handled.
NextChannelTable ==
    \/ \E n \in ChanNames : OpenChannel(n)
    \/ \E n \in ChanNames : OpenChannelFull(n)
    \/ \E n \in ChanNames : CloseChannel(n)
    \/ \E n \in ChanNames : CloseChannelMissing(n)
    \/ \E n \in ChanNames : HealthCheckCall(n)
    \/ \E n \in ChanNames : GetStatsCall(n)

SpecChannelTable == InitChannel /\ [][NextChannelTable]_vars

----------------------------------------------------------------------------
(* C3: the bytes the selected handler reads are the peeked prefix P followed *)
(* by the rest of the connection's bytes, each once and in order; a handler *)
(* that reads to the end of the stream has read all of them.                *)
C3_PrefixRoundTrip ==
    (InHandler \/ upc = "handler_eof") =>
        LET full == peeked \o Drop(cliStream, Len(peeked))
        IN  /\ IsPrefix(hread, full)
            /\ upc = "handler_eof" => hread = full

\* A handler has read, in more than one read, a stream longer than the
\* prefix to its end.
C3_Witness ==
    /\ upc = "handler_eof"
    /\ peeked # <<>>
    /\ Len(hread) > Len(peeked)
    /\ Len(peeked) < Len(cliStream)

Definite(tag) == tag \notin {"Unknown", "UnknownText", "UnknownBinary"}

\* The prefixes of the client's stream that extend the peeked bytes.
Extensions ==
    { Take(cliStream, k) : k \in Len(peeked)..Min(PeekLen, Len(cliStream)) }

Arm64Monotone ==
    \A longer \in Extensions :
        /\ Definite(DetectProtocolArm64(peeked))
              => DetectProtocolArm64(longer) = DetectProtocolArm64(peeked)
        /\ Definite(DetectSimd(peeked)) => DetectSimd(longer) = DetectSimd(peeked)
        /\ Definite(DetectScalar(peeked))
              => DetectScalar(longer) = DetectScalar(peeked)

UniversalMonotone ==
    \A longer \in Extensions :
        Definite(UniversalTag(peeked)) => UniversalTag(longer) = UniversalTag(peeked)

(* C4: a definite classification of a prefix p is the classification of     *)
(* every p ++ q, for the universal listener's detection chain and for the   *)
(* ARM64 detector.                                                          *)
C4_DetectionMonotone ==
    peeked # <<>> => (UniversalMonotone /\ Arm64Monotone)

Has(e) == \E i \in 1..Len(hev) : hev[i] = e

(* C5: after a greeting VER=5, NMETHODS, METHODS: if METHODS contains 0 the  *)
(* proxy writes exactly 05 00 and goes on to read the request; otherwise it *)
(* writes exactly 05 FF, closes the connection and neither reads a request  *)
(* nor dials upstream.                                                      *)
C5_MethodSelection ==
    Has("greeting") =>
        IF \E i \in 1..Len(hloc.methods) : hloc.methods[i] = 0
        THEN /\ sent["client"] = <<>> \/ IsPrefix(<<5, 0>>, sent["client"])
             /\ sent["client"] = <<>> => hpc \in {"s5_method_reply", "done_err"}
             /\ (sent["client"] # <<>> /\ ~Has("request_read"))
                   => hpc \in {"s5_request", "done_err"}
        ELSE /\ sent["client"] \in {<<>>, <<5, 255>>}
             /\ hpc \in {"s5_method_reply", "done_err"}
             /\ sent["client"] = <<5, 255>> => (hpc = "done_err" /\ ~sockOpen["client"])
             /\ ~Has("request_read") /\ ~Has("dial_ok") /\ ~Has("dial_err")
             /\ ~sockOpen["remote"]

\* A greeting that offers methods, none of them 0, has been answered 05 FF
\* and the connection is closed.
C5_Witness ==
    /\ Has("no_acceptable_methods")
    /\ hloc.methods # <<>>
    /\ sent["client"] = <<5, 255>>
    /\ ~sockOpen["client"]

\* 05 00 00 ATYP BND.ADDR BND.PORT for address a.
ReplyCarrying(a) ==
    <<5, 0, 0>> \o <<IF a.fam = "v4" THEN 1 ELSE 4>> \o a.ip
                \o <<a.port \div 256, a.port % 256>>

SocksHappyPath ==
    << "greeting", "method_reply", "request_read", "request_parsed", "dial_ok",
       "success_reply", "relay" >>

\* The steps of handle_socks5 happen in the order of SocksHappyPath, and the
\* relay's bytes follow a method reply and a success reply in `replies`.
SuccessReplyOrdered(replies) ==
    /\ (Has("success_reply") \/ rpc # "idle") =>
          /\ hev = SocksHappyPath
          /\ sockOpen["remote"] \/ rpc = "returned"
          /\ Take(sent["client"], rbase["client"]) \in { <<5, 0>> \o r : r \in replies }
    /\ Len(hloc.upLocal.ip) = (IF hloc.upLocal.fam = "v4" THEN 4 ELSE 16)
          \/ ~Has("dial_ok")

C7_ConnectReply ==
    (hev # <<>> /\ hev[1] = "connect") =>
        /\ sent["client"] # <<>> => (IsPrefix(B_200, sent["client"]) <=> Has("dial_ok"))
        /\ Has("dial_err") =>
              /\ sent["client"] \in {<<>>, B_502}
              /\ sent["client"] = B_502 => (hpc = "done_ok" /\ ~sockOpen["client"])
              /\ rpc = "idle"
        /\ rpc # "idle" => Take(sent["client"], rbase["client"]) = B_200
        /\ Has("502") => rpc = "idle"

\* The 200 has been written for a CONNECT and relayed bytes follow it.
C7_Witness ==
    /\ hev # <<>> /\ hev[1] = "connect"
    /\ Has("dial_ok")
    /\ rpc = "relaying"
    /\ RelayWritten("r2c") # <<>>

\* REP for the cause of a failed dial.
RepFor(kind) ==
    CASE kind = "ConnectionRefused"  -> 5
      [] kind = "HostUnreachable"    -> 4
      [] kind = "NetworkUnreachable" -> 3
      [] kind = "TimedOut"           -> 6
      [] OTHER                       -> 1

(* C10: when the upstream dial fails in handle_socks5 the REP byte of the   *)
(* reply is chosen by the cause (ConnectionRefused 5, HostUnreachable 4,    *)
(* NetworkUnreachable 3, TimedOut 6, any other 1); the connection is closed *)
(* after the reply and the relay is never entered.                          *)
C10_DialFailureReply ==
    Has("fail_reply") =>
        /\ Len(sent["client"]) >= 4
        /\ sent["client"][3] = 5
        /\ sent["client"][4] = RepFor(hloc.dialErr)
        /\ hpc = "done_err"
        /\ ~sockOpen["client"]
        /\ rpc = "idle"

\* A handle_connection call is handling: it has passed its first critical
\* section and has not returned.
Handling(c) == calls[c].pc \in {"stats", "decrement"}

(* C8: a handle_connection call that incremented active_connections has    *)
(* decremented it when it returns, on the success path and on every error   *)
(* return.                                                                  *)
C8_DecrementOnEveryExit ==
    \A c \in CallIds :
        (calls[c].pc \in {"done_ok", "done_err"} /\ calls[c].inc) => calls[c].dec

(* C9: whenever a channel exists, its active_connections is the number of   *)
(* handle_connection calls on it that have started handling and have not    *)
(* finished, and it is never negative.                                      *)
C9_ActiveConnectionsCount ==
    \A n \in ChanNames :
        IsOpen(n) =>
            /\ chans[n].connections >= 0
            /\ chans[n].connections =
                  Cardinality({c \in CallIds : calls[c].chan = n /\ Handling(c)})

----------------------------------------------------------------------------
(* C1: when one direction of the relay reaches EOF, the other direction     *)
(* keeps running until it reaches EOF or fails itself: relay_streams never  *)
(* returns with one direction at EOF and the other cut off while running.   *)
C1_HalfCloseKeepsOtherDirection ==
    \A d \in Dir :
        (rpc = "returned" /\ rst[d] = "eof") => rst[Other(d)] # "cancelled"

(* C2: in each direction the bytes written are a prefix of the bytes read,  *)
(* and once the relay has returned (no direction having failed) every       *)
(* byte read has been written.                                              *)
C2_RelayFidelity ==
    \A d \in Dir :
        /\ IsPrefix(RelayWritten(d), rread[d])
        /\ (rpc = "returned" /\ \A e \in Dir : rst[e] # "err")
              => RelayWritten(d) = rread[d]

----------------------------------------------------------------------------
(* SOCKS5 request errors                                                    *)

HandlerDone == hpc \in {"done_ok", "done_err"}

\* The bytes written to the client after the two bytes of the method reply.
AfterMethodReply == Drop(sent["client"], 2)

\* The request header that was read is a CONNECT of version 5.
ConnectRequestRead ==
    /\ hloc.req # <<>>
    /\ hloc.req[1] = 5
    /\ hloc.req[2] = 1

(* C11: when a SOCKS5 CONNECT request carries an ATYP other than 1, 3 or 4  *)
(* the handler has, when it returns, written a reply with REP = 0x08 to the *)
(* client, and no upstream dial was made.                                   *)
C11_UnknownAtypReply ==
    (ConnectRequestRead /\ hloc.req[4] \notin {1, 3, 4} /\ HandlerDone) =>
        /\ Len(AfterMethodReply) >= 2
        /\ AfterMethodReply[1] = 5
        /\ AfterMethodReply[2] = 8
        /\ ~Has("dial_ok") /\ ~Has("dial_err")

(* C12: when the CMD byte of the request is not 0x01 the only reply the     *)
(* handler writes is the one with REP = 0x07, after which it has returned   *)
(* and closed the connection; the destination address is never read and no  *)
(* upstream dial is made.                                                   *)
C12_CommandNotSupported ==
    (hloc.req # <<>> /\ hloc.req[2] # 1) =>
        /\ hpc \in {"s5_cmd_reply", "done_err"}
        /\ AfterMethodReply \in {<<>>, <<5, 7, 0, 1, 0, 0, 0, 0, 0, 0>>}
        /\ Has("command_reply") <=>
              (AfterMethodReply = SocksCommandReply /\ hpc = "done_err")
        /\ Has("command_reply") => \A sd \in Side : ~sockOpen[sd]
        /\ hloc.target = NoAddr
        /\ rcvq["client"] = Drop(cliStream, 2 + hloc.nmethods + 4)
              \/ (hpc = "done_err" /\ rcvq["client"] = <<>>)
        /\ ~Has("request_parsed") /\ ~Has("dial_ok") /\ ~Has("dial_err")

C12_Witness ==
    /\ hloc.req # <<>> /\ hloc.req[1] = 5 /\ hloc.req[2] = 2
    /\ Has("command_reply")
    /\ hpc = "done_err"
    /\ sent["client"] = <<5, 0, 5, 7, 0, 1, 0, 0, 0, 0, 0, 0>>

(* C13: a greeting 05 FF followed by the 255 methods 0x00 .. 0xFE is        *)
(* answered with 05 FF and the connection is closed.                        *)
C13_AllMethodsRefused ==
    (hloc.methods = [i \in 1..255 |-> i - 1] /\ hpc # "s5_method_reply"
        /\ ~(hpc = "done_err" /\ sent["client"] = <<>>)) =>
        /\ sent["client"] = <<5, 255>>
        /\ hpc = "done_err"

----------------------------------------------------------------------------
(* Deadlines                                                                *)

\* The handler stands at a read_exact that the bytes received cannot fill,
\* and the client has not closed.
StalledRead ==
    /\ hpc \in ReadExactStates
    /\ Len(rcvq["client"]) < HNeed
    /\ ~peerClosed["client"]

(* C14: a SOCKS5 handshake whose client has sent fewer bytes than the       *)
(* current read requires, and then nothing more without closing, is         *)
(* eventually ended by the handler.                                         *)
C14_StalledHandshakeEnds == StalledRead ~> HandlerDone

(* C15: a connection accepted on the universal listener does not stay in    *)
(* the peeking state forever: it eventually is closed, fails or is handed   *)
(* to a handler.                                                            *)
C15_PeekEnds == (upc = "accepted") ~> (upc # "accepted")

----------------------------------------------------------------------------
(* HTTP forward proxying and CONNECT targets                                *)

\* The value of the Host header of a request: what follows "host:" on the
\* first header line of that name, without surrounding whitespace.
HostHeaderValue(req) == Trim(Drop(HostLines(req)[1], Len(B_HostColon)))

\* The host a Host header value names: the bracketed literal, or the text
\* before the port.
NamedHost(value) ==
    IF value # <<>> /\ value[1] = 91
    THEN Take(value, RunLen(value, {93}) + 1)
    ELSE Take(value, RunLen(value, {58}))

ForwardRequest == hev # <<>> /\ hev[1] = "forward"

(* C16: for a non-CONNECT request with a Host header the handler dials the  *)
(* host named in that header on port 80, and the first bytes it writes to   *)
(* the upstream are exactly the request bytes it read, before anything is   *)
(* relayed.                                                                 *)
C16_ForwardTargetAndReplay ==
    ForwardRequest =>
        /\ hloc.text = NamedHost(HostHeaderValue(cliStream)) \o B_Port80
        /\ hloc.request = Take(cliStream, Len(hloc.request))
        /\ Has("relay") =>
              /\ IsPrefix(hloc.request, sent["remote"])
              /\ hev = <<"forward", "dial_ok", "replay", "relay">>
        /\ ~Has("relay") => sent = [sd \in Side |-> <<>>]

(* C17: when the upstream dial fails for a non-CONNECT request the handler  *)
(* has written an HTTP 502 response to the client when it returns.          *)
C17_ForwardDialFailure502 ==
    (ForwardRequest /\ Has("dial_err") /\ HandlerDone) =>
        /\ sent["client"] = B_502
        /\ \A sd \in Side : ~sockOpen[sd]

\* "HTTP/1.1 400 Bad Request"
B_400 == <<72, 84, 84, 80, 47, 49, 46, 49, 32, 52, 48, 48, 32, 66, 97, 100, 32, 82, 101, 113, 117, 101, 115, 116>>

\* "\r\n\r\n", the end of a header section
B_EndOfHeaders == <<13, 10, 13, 10>>

(* C18: when the read fills the 4096-byte buffer without reaching the end   *)
(* of the header section the handler answers 400 Bad Request and returns    *)
(* without dialing upstream.                                                *)
C18_OversizeHeader400 ==
    (Len(hloc.request) = HttpBufLen /\ ~Contains(hloc.request, B_EndOfHeaders)
        /\ HandlerDone) =>
        /\ StartsWith(sent["client"], B_400)
        /\ ~Has("dial_ok") /\ ~Has("dial_err")

\* The host[:port] of the CONNECT request line that was read.
ConnectHost == SplitWs(RequestStr(hloc.request))[2]

\* host is a domain or an IPv4 literal, or an IPv6 literal in brackets.
AcceptedHostForm(host) ==
    /\ host # <<>>
    /\ host[1] = 91 => \E i \in 1..Len(host) : host[i] = 93

\* A port follows the host: after the closing bracket, or after the colon.
HostHasPort(host) ==
    IF host[1] = 91
    THEN RunLen(host, {93}) + 2 <= Len(host) /\ host[RunLen(host, {93}) + 2] = 58
    ELSE \E i \in 1..Len(host) : host[i] = 58

(* C20: for CONNECT host[:port] the dial target is host:port when a port is *)
(* given and host:443 when it is omitted, for a domain, an IPv4 literal and *)
(* a bracketed IPv6 literal.                                                *)
C20_ConnectTarget ==
    (hev # <<>> /\ hev[1] = "connect" /\ AcceptedHostForm(ConnectHost)) =>
        hloc.text = IF HostHasPort(ConnectHost) THEN ConnectHost
                    ELSE ConnectHost \o B_Port443

----------------------------------------------------------------------------
(* PAC                                                                      *)

\* The request target of the request the client sends: the second
\* whitespace-separated word of its first bytes.
RequestTarget(stream) ==
    IF Len(SplitWs(stream)) >= 2 THEN SplitWs(stream)[2] ELSE <<>>

(* C19: an HTTP request on the universal listener is handed to the PAC      *)
(* responder if and only if its request target is /proxy.pac or /wpad.dat;  *)
(* every other request is handed to the HTTP handler; the PAC response is   *)
(* the only thing written and the connection is then closed.                *)
C19_PacIffTarget ==
    /\ (HttpMethodText(cliStream) /\ upc \in {"serve_simple_pac", "handle_http"}) =>
          (upc = "serve_simple_pac" <=> RequestTarget(cliStream) \in {B_PAC, B_WPAD})
    /\ sent["client"] # <<>> => (sent["client"] = PacResponse /\ upc = "closed")

----------------------------------------------------------------------------
(* Prefix detector signatures                                               *)

B_TRACE == <<84, 82, 65, 67, 69, 32>>

\* The Http signature: one of the nine method tokens followed by a space.
HttpSignature(b) == HttpMethodText(b) \/ StartsWith(b, B_TRACE)

\* The WebSocketUpgrade signature: an Http match that later contains the
\* header, whatever its case.
WebSocketSignature(b) == HttpSignature(b) /\ Contains(ToLower(b), B_upgradeWs)

\* The Tls signature: 16 03 and a third byte from 00 to 04.
TlsSignature(b) == Len(b) >= 3 /\ b[1] = 22 /\ b[2] = 3 /\ b[3] \in 0..4

\* The entry points that have returned.
Returned == { e \in DetectEntries : dres[e] # "none" }

(* C23: when a prefix matches the Http signature and a more specific one,   *)
(* the detector returns the more specific tag: a GET request with an        *)
(* upgrade: websocket header in the inspected window is WebSocket, not      *)
(* Http, and an HTTP/2 preface is Http2, not Http.                          *)
C23_MoreSpecificTagWins ==
    \A e \in Returned :
        /\ (StartsWith(dbuf, B_GET) /\ WebSocketSignature(dbuf)) => dres[e] = "WebSocket"
        /\ dbuf = D_H2Preface => dres[e] = "Http2"

(* C24: a prefix is classified Http exactly when it starts with one of the  *)
(* nine method tokens followed by a space; GETindex, which lacks the space, *)
(* is Unknown whatever the length of the buffer.                            *)
C24_HttpIffMethodToken ==
    \A e \in Returned :
        /\ dres[e] \in {"Http", "WebSocket"} <=> HttpSignature(dbuf)
        /\ IsPrefix(Take(D_GETindex, 8), dbuf) => dres[e] = "Unknown"

(* C25: a prefix is classified Tls exactly when it has at least 3 bytes,    *)
(* begins 16 03 and its third byte is one of 00..04.                        *)
C25_TlsIffSignature ==
    \A e \in Returned : dres[e] = "Tls" <=> TlsSignature(dbuf)

----------------------------------------------------------------------------
(* Unmatched prefixes                                                       *)

\* The peeked bytes match no test of the detection chain.
Unmatched(data) == data # <<>> /\ UniversalTag(data) \in {"UnknownText", "UnknownBinary"}

(* C21: a connection whose peeked prefix matches no detector goes to the    *)
(* fallback handler if one is configured and is closed otherwise; which of  *)
(* the two happens does not depend on the unmatched bytes, so every         *)
(* unmatched prefix the listener can peek of a stream has the outcome of    *)
(* the one it did peek.                                                     *)
C21_UnmatchedOutcomeUniform ==
    (upc \in {"handle_http", "failed"} /\ Unmatched(peeked)) =>
        \A q \in Extensions : Unmatched(q) => UniversalRoute(q) = upc

----------------------------------------------------------------------------
(* Channel table                                                            *)

OpenChannels == {n \in ChanNames : IsOpen(n)}

\* A step is a call of open_channel(n).
OpenChannelCalled(n) == OpenChannel(n) \/ OpenChannelFull(n)

(* C26: open_channel fails with ConnectionFailed whenever max_connections   *)
(* channels are open and leaves the table as it was, so the number of open  *)
(* channels never exceeds max_connections under any interleaving of         *)
(* open_channel and close_channel calls.                                    *)
C26_CapacityBound ==
    /\ [](Cardinality(OpenChannels) <= MaxChannels)
    /\ [][\A n \in ChanNames :
            (Cardinality(OpenChannels) >= MaxChannels /\ OpenChannelCalled(n)) =>
                (opRet'.ret = "ConnectionFailed" /\ chans' = chans)]_vars

\* open_channel has just failed on a full table.
C26_Witness ==
    /\ opRet.op = "open_channel"
    /\ opRet.ret = "ConnectionFailed"
    /\ Cardinality(OpenChannels) = MaxChannels
    /\ ~IsOpen(opRet.name)

\* get_stats(n) reports no counter below what it reported a step earlier.
CountersKept(n) ==
    (GetStats(n).ret = "Ok" /\ GetStats(n)'.ret = "Ok") =>
        LET before == GetStats(n).stats[1]
            after == GetStats(n)'.stats[1]
        IN  /\ after.total_connections >= before.total_connections
            /\ after.bytes_transferred >= before.bytes_transferred
            /\ after.errors >= before.errors

(* C27: for a channel name, total_connections, bytes_transferred and errors *)
(* as get_stats reports them never decrease over open_channel,              *)
(* handle_connection and close_channel calls, open_channel on a name that   *)
(* is already open included.                                                *)
C27_CountersMonotone == [][\A n \in ChanNames : CountersKept(n)]_vars

\* The step is the return of call c with an error.
ReturnsError(c) == calls[c].pc = "idle" /\ calls'[c].pc = "done_err"

\* The step is the return of call c with Ok(()).
ReturnsOk(c) == calls[c].pc = "decrement" /\ calls'[c].pc = "done_ok"

(* C28: a handle_connection call on an open channel that ends in a failure  *)
(* increases that channel's errors by exactly 1, and a call that succeeds   *)
(* leaves errors unchanged.                                                 *)
C28_ErrorsCounted ==
    [][\A c \in CallIds :
          LET n == calls'[c].chan
          IN  /\ (ReturnsError(c) /\ IsOpen(n)) =>
                    chans'[n].errors = chans[n].errors + 1
              /\ (ReturnsOk(c) /\ IsOpen(n)) =>
                    chans'[n].errors = chans[n].errors]_vars

\* health_check(n) and get_stats(n) report that there is no such channel.
NotFound(n) ==
    /\ HealthCheck(n) = "ProviderNotFound"
    /\ GetStats(n).ret = "ProviderNotFound"

\* A step is a call of close_channel(n), health_check(n) or get_stats(n).
QueryCalled(n) ==
    CloseChannel(n) \/ CloseChannelMissing(n) \/ HealthCheckCall(n) \/ GetStatsCall(n)

(* C29: after open_channel(n) returns Ok(true), health_check(n) returns     *)
(* Ok(true) and get_stats(n) reports active_connections = 0 and             *)
(* total_connections = 0; after close_channel(n) returns Ok, health_check,  *)
(* get_stats and a further close_channel of n return ProviderNotFound until *)
(* n is opened again.                                                       *)
C29_Lifecycle ==
    [][\A n \in ChanNames :
          /\ (opRet'.name = n /\ OpenChannel(n)) =>
                /\ HealthCheck(n)' = "Ok(true)"
                /\ GetStats(n)'.ret = "Ok"
                /\ GetStats(n)'.stats[1].active_connections = 0
                /\ GetStats(n)'.stats[1].total_connections = 0
          /\ (opRet'.name = n /\ CloseChannel(n)) => NotFound(n)'
          /\ NotFound(n) => (NotFound(n)' \/ OpenChannel(n))
          /\ (NotFound(n) /\ opRet'.name = n /\ QueryCalled(n)) =>
                opRet'.ret = "ProviderNotFound"]_vars

\* close_channel has returned Ok for a channel that had counted a
\* connection, and health_check and get_stats of it report ProviderNotFound.
C29_Witness ==
    \E n \in ChanNames, c \in CallIds :
        /\ calls[c].chan = n /\ calls[c].inc
        /\ opRet = Returns("close_channel", n, "Ok", <<>>)
        /\ NotFound(n)

----------------------------------------------------------------------------
(* Protocol registry: UnifiedProtocolManager and ProtocolRegistry           *)

\* Descriptors a registry built by hand holds at most.
MaxDescriptors == 2

\* Connections dispatched on one registry.
MaxDispatch == 2

DetectorNames == {"doh", "socks5", "tls", "http"}

\* "/dns-query"
B_DnsQuery ==
    << 47, 100, 110, 115, 45, 113, 117, 101, 114, 121 >>

\* "POST /dns-query HTTP/1.1\r\n"
P_DohPost ==
    << 80, 79, 83, 84, 32, 47, 100, 110, 115, 45, 113, 117, 101, 114,
       121, 32, 72, 84, 84, 80, 47, 49, 46, 49, 13, 10 >>

\* detector.detect(prefix) of the named detector returns a non-Unknown result.
DetectorMatches(name, prefix) ==
    CASE name = "socks5" -> Len(prefix) >= 2 /\ prefix[1] = 5
      [] name = "tls" -> TlsSignature(prefix)
      [] name = "http" -> HttpSignature(prefix)
      [] OTHER -> HttpSignature(prefix) /\ Contains(prefix, B_DnsQuery)

\* registry.register(detector, handler, priority), a later registration
\* going before the earlier ones of its priority.
RegisterIntoUnstable(table, name, priority) ==
    LET d == [name |-> name, priority |-> priority, order |-> Len(table) + 1]
        k == Cardinality({i \in 1..Len(table) : table[i].priority > priority})
    IN  SubSeq(table, 1, k) \o <<d>> \o SubSeq(table, k + 1, Len(table))

\* registry.register(detector, handler, priority): the descriptor goes into
\* the priority-ordered table behind every descriptor of its priority or a
\* higher one; order is the position in the sequence of registrations.
RegisterInto(table, name, priority) ==
    LET d == [name |-> name, priority |-> priority, order |-> Len(table) + 1]
        k == Cardinality({i \in 1..Len(table) : table[i].priority >= priority})
    IN  SubSeq(table, 1, k) \o <<d>> \o SubSeq(table, k + 1, Len(table))

\* The registrations of UnifiedProtocolManager::new, in program order.
DefaultRegistrations ==
    << [name |-> "doh", priority |-> 255], [name |-> "socks5", priority |-> 200],
       [name |-> "tls", priority |-> 180], [name |-> "http", priority |-> 150] >>

\* get_optimal_detection_buffer_size
OptimalDetectionBufferSize == 1024

\* The detection budget of ProtocolRegistry::new.
RegistryMaxDetectionBytes == 1024

\* Detection budgets a configuration is given: the default and that of
\* tests::test_custom_config.
DetectionBudgets == {OptimalDetectionBufferSize, 2048}

\* UnifiedPortConfig: the detection budget, which protocols and whether the
\* fallback are enabled.
PortConfigs ==
    [ max_detection_bytes : DetectionBudgets,
      enable_doh : BOOLEAN, enable_socks5 : BOOLEAN, enable_tls : BOOLEAN,
      enable_http : BOOLEAN, enable_fallback : BOOLEAN ]

\* UnifiedPortConfig::default
DefaultPortConfig ==
    [ max_detection_bytes |-> OptimalDetectionBufferSize,
      enable_doh |-> TRUE, enable_socks5 |-> TRUE, enable_tls |-> TRUE,
      enable_http |-> TRUE, enable_fallback |-> TRUE ]

\* Every protocol is registered, whatever the configuration says.
EnabledAll(config, name) == TRUE

\* The if config.enable_* around each registration of with_config.
Enabled(config, name) ==
    CASE name = "doh" -> config.enable_doh
      [] name = "socks5" -> config.enable_socks5
      [] name = "tls" -> config.enable_tls
      [] OTHER -> config.enable_http

\* The table after the registrations regs[k..] are made on it.
RECURSIVE RegisterAll(_, _, _, _)
RegisterAll(table, regs, k, config) ==
    IF k > Len(regs) THEN table
    ELSE RegisterAll(IF Enabled(config, regs[k].name)
                     THEN RegisterInto(table, regs[k].name, regs[k].priority)
                     ELSE table,
                     regs, k + 1, config)

NoRegistry == [built |-> "none", table |-> <<>>, max_detection_bytes |-> 0]

\* UnifiedProtocolManager::new
ManagerNew ==
    /\ registry = NoRegistry
    /\ registry' = [built |-> "new",
                    table |-> RegisterAll(<<>>, DefaultRegistrations, 1, DefaultPortConfig),
                    max_detection_bytes |-> RegistryMaxDetectionBytes]
    /\ fallback' = "http"
    /\ UNCHANGED <<sockVars, relayVars, uniVars, hVars, chanVars, lateVars, detVars,
                   dprefix, selected, bindVars>>

\* UnifiedProtocolManager::with_config
ManagerWithConfig(config) ==
    /\ registry = NoRegistry
    /\ registry' = [built |-> "with_config",
                    table |-> RegisterAll(<<>>, DefaultRegistrations, 1, config),
                    max_detection_bytes |-> config.max_detection_bytes]
    /\ fallback' = IF config.enable_fallback THEN "http" ELSE "none"
    /\ UNCHANGED <<sockVars, relayVars, uniVars, hVars, chanVars, lateVars, detVars,
                   dprefix, selected, bindVars>>

\* Priorities an application registers its own descriptors with.
CustomPriorities == {150, 255}

\* ProtocolRegistry::new followed by register calls of an application, made
\* before the registry serves connections.
RegisterCustom(name, priority) ==
    /\ registry.built \in {"none", "custom"}
    /\ selected = <<>>
    /\ Len(registry.table) < MaxDescriptors
    /\ registry' = [built |-> "custom",
                    table |-> RegisterInto(registry.table, name, priority),
                    max_detection_bytes |-> RegistryMaxDetectionBytes]
    /\ UNCHANGED <<sockVars, relayVars, uniVars, hVars, chanVars, lateVars, detVars,
                   fallback, dprefix, selected, bindVars>>

\* registry.set_fallback(handler) on a registry built by hand.
SetFallback ==
    /\ registry.built = "custom"
    /\ selected = <<>>
    /\ fallback = "none"
    /\ fallback' = "http"
    /\ UNCHANGED <<sockVars, relayVars, uniVars, hVars, chanVars, lateVars, detVars,
                   registry, dprefix, selected, bindVars>>

\* What dispatch selects: the detectors are asked in table order, the first
\* that matches gives its handler; then the fallback, then close.
Select(table, fb, prefix) ==
    LET hits == {i \in 1..Len(table) : DetectorMatches(table[i].name, prefix)}
    IN  IF hits # {}
        THEN [via |-> "descriptor",
              handler |-> table[CHOOSE i \in hits : \A j \in hits : i <= j].name]
        ELSE IF fb # "none" THEN [via |-> "fallback", handler |-> fb]
        ELSE [via |-> "close", handler |-> "none"]

\* The registry dispatches a connection that sent dprefix.
Dispatch ==
    /\ registry.built # "none"
    /\ Len(selected) < MaxDispatch
    /\ selected' = Append(selected, Select(registry.table, fallback, dprefix))
    /\ UNCHANGED <<sockVars, relayVars, uniVars, hVars, chanVars, lateVars, detVars,
                   registry, fallback, dprefix, bindVars>>

\* The first bytes of the connections dispatched.
DispatchPrefixes ==
    { P_DohPost, D_GetPlain, D_Trace, D_Socks5, D_Tls13, D_TlsBadVersion,
      D_Random, B_SSH }

InitRegistry ==
    /\ registry = NoRegistry
    /\ fallback = "none"
    /\ dprefix \in DispatchPrefixes
    /\ selected = <<>>
    /\ rcvq = [s \in Side |-> <<>>]
    /\ peerClosed = [s \in Side |-> FALSE]
    /\ sent = [s \in Side |-> <<>>]
    /\ sockOpen = [s \in Side |-> FALSE]
    /\ RelayIdle
    /\ UniIdle
    /\ HandlerIdle
    /\ ChannelIdle
    /\ DetectorIdle
    /\ BindIdle
    /\ LateIdle

NextRegistry ==
    \/ ManagerNew
    \/ \E config \in PortConfigs : ManagerWithConfig(config)
    \/ \E name \in DetectorNames, priority \in CustomPriorities :
          RegisterCustom(name, priority)
    \/ SetFallback
    \/ Dispatch

SpecRegistry == InitRegistry /\ [][NextRegistry]_vars

\* UnifiedProtocolManager::get_stats: what the registry reports.
RegistryStats ==
    [ registered_protocols |-> Len(registry.table),
      has_fallback |-> fallback # "none",
      max_detection_bytes |-> registry.max_detection_bytes ]

\* The descriptors of the registry whose detector matches the prefix.
Matching == {i \in 1..Len(registry.table) :
                DetectorMatches(registry.table[i].name, dprefix)}

\* Descriptor i goes before descriptor j: a higher priority, or the same
\* priority and an earlier registration.
Before(i, j) ==
    LET t == registry.table
    IN  \/ t[i].priority > t[j].priority
        \/ t[i].priority = t[j].priority /\ t[i].order <= t[j].order

(* C22: dispatch selects the handler of the highest-priority registered     *)
(* descriptor whose detector matches the prefix (the default registration   *)
(* being DoH 255 > SOCKS5 200 > TLS 180 > HTTP 150) and, among equal        *)
(* priorities, the one registered first; for a fixed registry and prefix    *)
(* every dispatch selects the same handler.                                 *)
C22_DispatchByPriority ==
    /\ \A k \in 1..Len(selected) :
          /\ Matching # {} =>
                \E i \in Matching :
                    /\ \A j \in Matching : Before(i, j)
                    /\ selected[k] = [via |-> "descriptor",
                                      handler |-> registry.table[i].name]
          /\ selected[k] = selected[1]
    /\ registry.built = "new" =>
          { <<registry.table[i].name, registry.table[i].priority>> :
                i \in 1..Len(registry.table) }
             = { <<"doh", 255>>, <<"socks5", 200>>, <<"tls", 180>>, <<"http", 150>> }

\* Two descriptors of one priority and different handlers match the prefix,
\* and two connections have been dispatched.
C22_Witness ==
    /\ Len(selected) = 2
    /\ \E i, j \in Matching :
          /\ registry.table[i].priority = registry.table[j].priority
          /\ registry.table[i].name # registry.table[j].name

\* The protocols a configuration enables.
EnabledFlags(config) ==
    { n \in {"doh", "socks5", "tls", "http"} :
          \/ n = "doh" /\ config.enable_doh
          \/ n = "socks5" /\ config.enable_socks5
          \/ n = "tls" /\ config.enable_tls
          \/ n = "http" /\ config.enable_http }

RegisteredNames == { registry.table[i].name : i \in 1..Len(registry.table) }

(* C33: with_config registers exactly one descriptor for each enabled flag  *)
(* among DoH, SOCKS5, TLS and HTTP (registered_protocols is the number of   *)
(* enabled flags), has a fallback exactly when enable_fallback is set and   *)
(* reports the configured max_detection_bytes; new gives four descriptors,  *)
(* a fallback and max_detection_bytes = 1024.                               *)
C33_ManagerStats ==
    [][/\ \A config \in PortConfigs :
            ManagerWithConfig(config) =>
                /\ RegisteredNames' = EnabledFlags(config)
                /\ RegistryStats' =
                      [ registered_protocols |-> Cardinality(EnabledFlags(config)),
                        has_fallback |-> config.enable_fallback,
                        max_detection_bytes |-> config.max_detection_bytes ]
       /\ ManagerNew =>
                RegistryStats' = [ registered_protocols |-> 4, has_fallback |-> TRUE,
                                   max_detection_bytes |-> 1024 ]]_vars

\* tests::test_custom_config: DoH and TLS disabled, a budget of 2048.
C33_Witness ==
    /\ registry.built = "with_config"
    /\ RegisteredNames = {"socks5", "http"}
    /\ RegistryStats = [ registered_protocols |-> 2, has_fallback |-> TRUE,
                         max_detection_bytes |-> 2048 ]

----------------------------------------------------------------------------
(* Binding strategy: SimpleRouter::bind_with_fallback and main              *)

\* RouteConfig::default
PrimaryConfig == [interface |-> "swlan0", bind_addr |-> <<0, 0, 0, 0>>, port |-> 8888]

\* RouteConfig::fallback
FallbackConfig == [interface |-> "lo", bind_addr |-> <<127, 0, 0, 1>>, port |-> 8888]

\* RouteConfig::parse("eth0:8080,192.168.1.1:http,socks5")
CustomConfig == [interface |-> "eth0", bind_addr |-> <<192, 168, 1, 1>>, port |-> 8080]

\* The primary configurations a router is built with: the default, a parsed
\* one, and the loopback itself.
PrimaryConfigs == {PrimaryConfig, CustomConfig, FallbackConfig}

\* Why a bind fails: the interface is absent, the port is in use, the
\* process may not bind, or any other io::Error.
BindErrors == {"AddrNotAvailable", "AddrInUse", "PermissionDenied", "Other"}

\* What follows a failed bind: the fallback again, whatever was tried.
AfterFailureRetrying(attempts) == "fallback"

\* What follows a failed bind: the fallback after the primary, and the end
\* after the fallback.
AfterFailure(attempts) == IF Len(attempts) < 2 THEN "fallback" ELSE "failed"

\* bind_with_fallback binds the primary configuration.
BindPrimaryOk ==
    /\ bpc = "idle"
    /\ battempts' = Append(battempts, [config |-> router.primary, result |-> "Ok"])
    /\ bactive' = router.primary
    /\ bpc' = "bound"
    /\ UNCHANGED <<sockVars, relayVars, uniVars, hVars, chanVars, lateVars, detVars, regVars, router>>

\* The bind of the primary configuration fails.
BindPrimaryErr(e) ==
    /\ bpc = "idle"
    /\ battempts' = Append(battempts, [config |-> router.primary, result |-> e])
    /\ bpc' = AfterFailure(battempts')
    /\ UNCHANGED <<sockVars, relayVars, uniVars, hVars, chanVars, lateVars, detVars, regVars,
                   router, bactive>>

\* bind_with_fallback binds the fallback configuration.
BindFallbackOk ==
    /\ bpc = "fallback"
    /\ battempts' = Append(battempts, [config |-> router.fallback, result |-> "Ok"])
    /\ bactive' = router.fallback
    /\ bpc' = "bound"
    /\ UNCHANGED <<sockVars, relayVars, uniVars, hVars, chanVars, lateVars, detVars, regVars, router>>

\* The bind of the fallback configuration fails.
BindFallbackErr(e) ==
    /\ bpc = "fallback"
    /\ battempts' = Append(battempts, [config |-> router.fallback, result |-> e])
    /\ bpc' = AfterFailure(battempts')
    /\ UNCHANGED <<sockVars, relayVars, uniVars, hVars, chanVars, lateVars, detVars, regVars,
                   router, bactive>>

\* main: bind_with_fallback returned Ok((listener, active_config)); the
\* fallback is warned about and the accept loop starts.
MainListen ==
    /\ bpc = "bound"
    /\ bpc' = IF bactive.interface = "lo" THEN "listening_warned" ELSE "listening"
    /\ UNCHANGED <<sockVars, relayVars, uniVars, hVars, chanVars, lateVars, detVars, regVars,
                   router, battempts, bactive>>

\* main: .expect("Failed to bind universal listener") on Err.
MainPanic ==
    /\ bpc = "failed"
    /\ bpc' = "panicked"
    /\ UNCHANGED <<sockVars, relayVars, uniVars, hVars, chanVars, lateVars, detVars, regVars,
                   router, battempts, bactive>>

\* SimpleRouter::new(), then main calls bind_with_fallback.
InitBind ==
    /\ router \in [primary : PrimaryConfigs, fallback : {FallbackConfig}]
    /\ bpc = "idle"
    /\ battempts = <<>>
    /\ bactive = NoConfig
    /\ rcvq = [s \in Side |-> <<>>]
    /\ peerClosed = [s \in Side |-> FALSE]
    /\ sent = [s \in Side |-> <<>>]
    /\ sockOpen = [s \in Side |-> FALSE]
    /\ RelayIdle
    /\ UniIdle
    /\ HandlerIdle
    /\ ChannelIdle
    /\ DetectorIdle
    /\ RegistryIdle
    /\ LateIdle

NextBind ==
    \/ BindPrimaryOk
    \/ \E e \in BindErrors : BindPrimaryErr(e)
    \/ BindFallbackOk
    \/ \E e \in BindErrors : BindFallbackErr(e)
    \/ MainListen
    \/ MainPanic

SpecBind == InitBind /\ [][NextBind]_vars

\* bind_with_fallback has returned.
BindReturned == bpc \notin {"idle", "fallback"}

(* C30: the bind tries the primary configuration (by default swlan0,        *)
(* 0.0.0.0, 8888) first; if that fails for any reason it tries the fallback *)
(* (lo, 127.0.0.1, 8888) exactly once and reports the configuration that is *)
(* actually bound; if both fail it fails with an error and makes no further *)
(* attempt.                                                                 *)
C30_BindFallback ==
    /\ Len(battempts) <= 2
    /\ battempts # <<>> => battempts[1].config = router.primary
    /\ Len(battempts) = 2 =>
          /\ battempts[1].result # "Ok"
          /\ battempts[2].config =
                [interface |-> "lo", bind_addr |-> <<127, 0, 0, 1>>, port |-> 8888]
    /\ BindReturned =>
          /\ battempts[1].result # "Ok" => Len(battempts) = 2
          /\ IF battempts[Len(battempts)].result = "Ok"
             THEN /\ bactive = battempts[Len(battempts)].config
                  /\ bpc \in {"bound", "listening", "listening_warned"}
             ELSE /\ bactive = NoConfig
                  /\ bpc \in {"failed", "panicked"}

\* The default primary was absent, the fallback is bound and reported.
C30_Witness ==
    /\ router.primary = PrimaryConfig
    /\ Len(battempts) = 2
    /\ battempts[1].result = "AddrNotAvailable"
    /\ bactive = FallbackConfig
    /\ bpc = "listening_warned"

----------------------------------------------------------------------------
(* Upstream dial: connect_to_target                                         *)

\* host.parse::<Ipv4Addr>(): four decimal parts of one to three digits, each
\* at most 255 and without a leading zero, separated by '.'.
RECURSIVE SplitDot(_)
SplitDot(s) ==
    IF \A i \in 1..Len(s) : s[i] # 46
    THEN <<s>>
    ELSE <<Take(s, RunLen(s, {46}))>> \o SplitDot(Drop(s, RunLen(s, {46}) + 1))

OctetParses(p) ==
    /\ Len(p) \in 1..3
    /\ \A i \in 1..Len(p) : p[i] >= 48 /\ p[i] <= 57
    /\ Len(p) > 1 => p[1] # 48
    /\ DecValue(p) <= 255

ParsesIpv4(host) ==
    /\ Len(SplitDot(host)) = 4
    /\ \A i \in 1..4 : OctetParses(SplitDot(host)[i])

\* host.parse::<Ipv6Addr>() on the IPv6 texts among the targets: "::1".
Ipv6Texts == { <<58, 58, 49>> }

\* host.parse::<IpAddr>(): the address, or NoAddr when the host is a name.
ParseIpAddr(host) ==
    IF ParsesIpv4(host)
    THEN [fam |-> "v4", ip |-> [i \in 1..4 |-> DecValue(SplitDot(host)[i])], port |-> 0]
    ELSE IF host \in Ipv6Texts
         THEN [fam |-> "v6", ip |-> [i \in 1..16 |-> IF i = 16 THEN 1 ELSE 0], port |-> 0]
         ELSE NoAddr

\* target.rsplit_once(':')
HostText(target) == Take(target, LastIndex(target, 58) - 1)

PortText(target) == Drop(target, LastIndex(target, 58))

\* port_str.parse::<u16>() on a text it accepts.
PortValue(s) == DecValue(IF s[1] = 43 THEN Tail(s) ELSE s)

\* What tokio::net::lookup_host collects for a name: no address, one, or
\* several of which the first is used.
LookupResults ==
    { <<>>,
      << <<10, 0, 0, 9>> >>,
      << <<10, 0, 0, 7>>, <<10, 0, 0, 9>> >> }

\* io::Error kinds of lookup_host and of TcpStream::connect.
LookupErrs == {"Other"}

ConnectErrs == {"ConnectionRefused", "HostUnreachable", "NetworkUnreachable", "Other"}

Err(kind) == [kind |-> kind, stream |-> NoAddr]

\* The target is split and its port parsed; a host that is an IP address is
\* dialed as it is, any other host goes to the resolver.
CtParse ==
    /\ ctpc = "called"
    /\ IF ~TargetParses(ctarget)
       THEN /\ ctret' = Err("InvalidInput")
            /\ ctpc' = "returned"
            /\ UNCHANGED ctaddr
       ELSE IF ParseIpAddr(HostText(ctarget)) # NoAddr
            THEN /\ ctaddr' = [ParseIpAddr(HostText(ctarget)) EXCEPT
                                  !.port = PortValue(PortText(ctarget))]
                 /\ ctpc' = "connect"
                 /\ UNCHANGED ctret
            ELSE /\ ctpc' = "lookup"
                 /\ UNCHANGED <<ctaddr, ctret>>
    /\ UNCHANGED <<coreVars, connOthers, ctarget, ctev>>

\* lookup_host(format!("{}:80", host)).await? gives its addresses;
\* addresses.first() is dialed, and an empty list is NotFound.
CtLookupOk(addresses) ==
    /\ ctpc = "lookup"
    /\ IF addresses = <<>>
       THEN /\ ctev' = Append(ctev, "lookup_empty")
            /\ ctret' = Err("NotFound")
            /\ ctpc' = "returned"
            /\ UNCHANGED ctaddr
       ELSE /\ ctev' = Append(ctev, "lookup_ok")
            /\ ctaddr' = [fam |-> "v4", ip |-> addresses[1],
                          port |-> PortValue(PortText(ctarget))]
            /\ ctpc' = "connect"
            /\ UNCHANGED ctret
    /\ UNCHANGED <<coreVars, connOthers, ctarget>>

\* lookup_host(..).await? fails: its error is returned.
CtLookupErr(e) ==
    /\ ctpc = "lookup"
    /\ ctev' = Append(ctev, "lookup_err")
    /\ ctret' = Err(e)
    /\ ctpc' = "returned"
    /\ UNCHANGED <<coreVars, connOthers, ctarget, ctaddr>>

\* timeout(CONNECT_TIMEOUT, TcpStream::connect(socket_addr)): Ok(Ok(stream)).
CtConnectOk ==
    /\ ctpc = "connect"
    /\ ctev' = Append(ctev, "connected")
    /\ ctret' = [kind |-> "Ok", stream |-> ctaddr]
    /\ ctpc' = "returned"
    /\ UNCHANGED <<coreVars, connOthers, ctarget, ctaddr>>

\* Ok(Err(e)): the connect fails within the deadline.
CtConnectErr(e) ==
    /\ ctpc = "connect"
    /\ ctev' = Append(ctev, "connect_err")
    /\ ctret' = Err(e)
    /\ ctpc' = "returned"
    /\ UNCHANGED <<coreVars, connOthers, ctarget, ctaddr>>

\* Err(_): CONNECT_TIMEOUT elapses before the connect completes.
CtDeadline ==
    /\ ctpc = "connect"
    /\ ctev' = Append(ctev, "deadline")
    /\ ctret' = Err("TimedOut")
    /\ ctpc' = "returned"
    /\ UNCHANGED <<coreVars, connOthers, ctarget, ctaddr>>

\* "a.b:80", "a.b", "a.b:x", "a.b:", "a.b:65536", "1.2.3.4:80", "a.b:0",
\* ":80", "::1:80", "a.b:+80", "1.2.3.256:80", "c:443"
ConnectTargets ==
    { <<97, 46, 98, 58, 56, 48>>,
      <<97, 46, 98>>,
      <<97, 46, 98, 58, 120>>,
      <<97, 46, 98, 58>>,
      <<97, 46, 98, 58, 54, 53, 53, 51, 54>>,
      <<49, 46, 50, 46, 51, 46, 52, 58, 56, 48>>,
      <<97, 46, 98, 58, 48>>,
      <<58, 56, 48>>,
      <<58, 58, 49, 58, 56, 48>>,
      <<97, 46, 98, 58, 43, 56, 48>>,
      <<49, 46, 50, 46, 51, 46, 50, 53, 54, 58, 56, 48>>,
      <<99, 58, 52, 52, 51>> }

\* read_socks_address: format!("{}:{}", ip, port) of the four address bytes
\* and the port (ATYP 1), format!("{}:{}", domain, port) of the name (ATYP 3).
SocksAddrText(atyp, host, port) ==
    IF atyp = 1
    THEN DecDigits(host[1]) \o <<46>> \o DecDigits(host[2]) \o <<46>>
            \o DecDigits(host[3]) \o <<46>> \o DecDigits(host[4]) \o <<58>> \o DecDigits(port)
    ELSE host \o <<58>> \o DecDigits(port)

\* The longest name a SOCKS5 request of the model carries.
LongNameLen == 254

\* Address fields of SOCKS5 CONNECT requests: 127.0.0.1 port 80 and port 0,
\* the names "a", "" and one of LongNameLen bytes, port 443 and port 0.
SocksTargets ==
    { SocksAddrText(1, <<127, 0, 0, 1>>, port) : port \in {80, 0} }
      \cup { SocksAddrText(3, name, port) :
                name \in { <<97>>, <<>>, [i \in 1..LongNameLen |-> 97] }, port \in {443, 0} }

\* connect_to_target(target) is called by handle_http with the text of the
\* request, or by handle_socks5 with what read_socks_address returned.
InitConnect ==
    /\ ctpc = "called"
    /\ ctarget \in ConnectTargets \cup SocksTargets
    /\ ctaddr = NoAddr
    /\ ctret = NoReturn
    /\ ctev = <<>>
    /\ rcvq = [s \in Side |-> <<>>]
    /\ peerClosed = [s \in Side |-> FALSE]
    /\ sent = [s \in Side |-> <<>>]
    /\ sockOpen = [s \in Side |-> FALSE]
    /\ RelayIdle
    /\ UniIdle
    /\ HandlerIdle
    /\ ChannelIdle
    /\ DetectorIdle
    /\ RegistryIdle
    /\ BindIdle
    /\ AcceptIdle
    /\ TuneIdle
    /\ ManagerIdle
    /\ ForwardIdle

NextConnect ==
    \/ CtParse
    \/ \E addresses \in LookupResults : CtLookupOk(addresses)
    \/ \E e \in LookupErrs : CtLookupErr(e)
    \/ CtConnectOk
    \/ \E e \in ConnectErrs : CtConnectErr(e)
    \/ CtDeadline

SpecConnect == InitConnect /\ [][NextConnect]_vars

\* connect_to_target has returned an error: no stream comes with it.
NoStream == ctret.kind # "Ok" /\ ctret.stream = NoAddr

(* C31: connect_to_target returns InvalidInput when the target has no ':'   *)
(* or the text after the last ':' is not a port number, NotFound when the   *)
(* resolver gives no address, and TimedOut when the connect does not        *)
(* complete within the deadline; no stream is returned in any of the three. *)
C31_ConnectErrors ==
    ctpc = "returned" =>
        /\ ((\A i \in 1..Len(ctarget) : ctarget[i] # 58) \/ ~ParsesU16(PortText(ctarget)))
              => (ctret.kind = "InvalidInput" /\ NoStream)
        /\ (\E i \in 1..Len(ctev) : ctev[i] = "lookup_empty")
              => (ctret.kind = "NotFound" /\ NoStream)
        /\ (\E i \in 1..Len(ctev) : ctev[i] = "deadline")
              => (ctret.kind = "TimedOut" /\ NoStream)

\* A name was resolved and the connect to its first address ran into the
\* deadline.
C31_Witness ==
    /\ ctpc = "returned"
    /\ ctev = <<"lookup_ok", "deadline">>
    /\ ctaddr.ip = <<10, 0, 0, 7>>
    /\ ctret = Err("TimedOut")

----------------------------------------------------------------------------
(* Universal accept loop: main                                              *)

\* The tasks the loop waits for before it accepts again: tokio::spawn
\* returns at once and its JoinHandle is dropped, so there are none.
LoopWaitsForHandlers(ts) == { c \in Conns : ts[c].st \in {"spawned", "running", "stalled"} }

LoopWaitsFor(ts) == {}

Stalled(ts) == { c \in Conns : ts[c].st = "stalled" }

\* A client connects: the connection waits in the listener's backlog.
ClientConnects(c) ==
    /\ tasks[c].st = "none"
    /\ c \notin backlog
    /\ backlog' = backlog \cup {c}
    /\ UNCHANGED <<coreVars, accOthers, tasks>>

\* universal_listener.accept().await gives Ok((stream, addr)); the handler
\* is spawned as a task of its own and the loop is back at accept.
AcceptSpawn(c) ==
    /\ c \in backlog
    /\ LoopWaitsFor(tasks) = {}
    /\ backlog' = backlog \ {c}
    /\ tasks' = [tasks EXCEPT ![c] = [st |-> "spawned", stalledBefore |-> Stalled(tasks) # {}]]
    /\ UNCHANGED <<coreVars, accOthers>>

\* accept().await gives Err (the connection was reset while it waited): the
\* if let skips it and the loop is back at accept.
AcceptErr(c) ==
    /\ c \in backlog
    /\ LoopWaitsFor(tasks) = {}
    /\ backlog' = backlog \ {c}
    /\ tasks' = [tasks EXCEPT ![c].st = "aborted"]
    /\ UNCHANGED <<coreVars, accOthers>>

\* The runtime polls the spawned task: handle_universal_connection starts.
TaskStart(c) ==
    /\ tasks[c].st = "spawned"
    /\ tasks' = [tasks EXCEPT ![c].st = "running"]
    /\ UNCHANGED <<coreVars, accOthers, backlog>>

\* handle_universal_connection returns, Ok or Err (Err is logged).
TaskReturn(c, result) ==
    /\ tasks[c].st = "running"
    /\ tasks' = [tasks EXCEPT ![c].st = result]
    /\ UNCHANGED <<coreVars, accOthers, backlog>>

\* The handler waits at an await that never completes: a peek or a
\* handshake read of a silent client, or a relay that goes on.
TaskStalls(c) ==
    /\ tasks[c].st = "running"
    /\ tasks' = [tasks EXCEPT ![c].st = "stalled"]
    /\ UNCHANGED <<coreVars, accOthers, backlog>>

\* main has bound the universal listener and enters its loop.
InitAccept ==
    /\ backlog = {}
    /\ tasks = [c \in Conns |-> NoTask]
    /\ rcvq = [s \in Side |-> <<>>]
    /\ peerClosed = [s \in Side |-> FALSE]
    /\ sent = [s \in Side |-> <<>>]
    /\ sockOpen = [s \in Side |-> FALSE]
    /\ RelayIdle
    /\ UniIdle
    /\ HandlerIdle
    /\ ChannelIdle
    /\ DetectorIdle
    /\ RegistryIdle
    /\ BindIdle
    /\ ConnectIdle
    /\ TuneIdle
    /\ ManagerIdle
    /\ ForwardIdle

NextAccept ==
    \/ \E c \in Conns : ClientConnects(c)
    \/ \E c \in Conns : AcceptSpawn(c)
    \/ \E c \in Conns : AcceptErr(c)
    \/ \E c \in Conns : TaskStart(c)
    \/ \E c \in Conns, result \in {"done_ok", "done_err"} : TaskReturn(c, result)
    \/ \E c \in Conns : TaskStalls(c)

SpecAccept == InitAccept /\ [][NextAccept]_vars

\* The loop and the runtime take their steps: a connection in the backlog is
\* taken by accept, and a task that can run is polled.
AcceptProgress ==
    /\ \A c \in Conns : WF_vars(AcceptSpawn(c) \/ AcceptErr(c))
    /\ \A c \in Conns : WF_vars(TaskStart(c))
    /\ \A c \in Conns : WF_vars(TaskStalls(c) \/ \E r \in {"done_ok", "done_err"} : TaskReturn(c, r))

SpecAcceptFair == SpecAccept /\ AcceptProgress

(* C32: every accepted connection gets a task of its own and the loop is    *)
(* back at accept at once: whatever the tasks of earlier connections do,    *)
(* stalled ones included, a connection that has arrived is accepted and     *)
(* its handler runs.                                                        *)
C32_AcceptNotBlocked ==
    \A c \in Conns :
        /\ (c \in backlog) ~> (c \notin backlog)
        /\ (tasks[c].st = "spawned") ~> (tasks[c].st \in {"stalled", "done_ok", "done_err"})

\* A connection accepted while an earlier handler was stalled has been
\* handled to the end, and that earlier handler is still stalled.
C32_Witness ==
    \E c, d \in Conns :
        /\ tasks[c].st = "done_ok"
        /\ tasks[c].stalledBefore
        /\ tasks[d].st = "stalled"

\* The resolver or the connect has been used for the target.
Attempted == ctpc \in {"lookup", "connect"} \/ ctev # <<>>

(* C34: no target with port 0, and no domain target with an empty name or   *)
(* a name of more than 253 bytes, is dialed: such a host:port text or       *)
(* SOCKS5 address is rejected before the resolver or the connect is used.   *)
C34_NoInvalidTarget ==
    Attempted =>
        /\ PortValue(PortText(ctarget)) \in 1..65535
        /\ ParseIpAddr(HostText(ctarget)) = NoAddr => Len(HostText(ctarget)) \in 1..253

----------------------------------------------------------------------------
(* Tunnels: handle_socks5 and handle_http on one listener                   *)

InitTunnel == InitSocks \/ InitHttp

NextTunnel == NextSocks \/ NextHttp

SpecTunnel == InitTunnel /\ [][NextTunnel]_vars

\* The success response has been written to the client.
SuccessWritten == Has("200") \/ Has("success_reply")

(* C35: once the 200 line or the SOCKS5 reply with REP = 0 is written, the  *)
(* client is sent nothing but bytes read from the upstream, in order: no    *)
(* error response follows, and a relay failure ends the relay and closes    *)
(* both sockets.                                                            *)
C35_OnlyUpstreamAfterSuccess ==
    SuccessWritten =>
        /\ \E reply \in {B_200, SocksSuccessReply(hloc.localAddr)} :
              /\ rbase["client"] >= Len(reply)
              /\ SubSeq(sent["client"], rbase["client"] - Len(reply) + 1, rbase["client"])
                    = reply
        /\ RelayWritten("r2c") \o rbuf["r2c"] \o rcvq["remote"] \in UpstreamPayloads
        /\ ~Has("502") /\ ~Has("fail_reply")
        /\ hpc \in {"relay", "done_ok"}
        /\ (\E d \in Dir : rst[d] = "err") =>
              (rpc = "returned" /\ ~sockOpen["client"] /\ ~sockOpen["remote"])

\* A tunnel was opened with 200, a byte of the upstream reached the client,
\* then a copy failed and the handler returned.
C35_Witness ==
    /\ Has("200")
    /\ RelayWritten("r2c") # <<>>
    /\ \E d \in Dir : rst[d] = "err"
    /\ hpc = "done_ok"

----------------------------------------------------------------------------
(* Tuned accept: accept_with_options, apply_socket_options                  *)

\* TcpTuningOptions::default: an Option field is TRUE when it is Some.
DefaultOptions ==
    [ nodelay |-> TRUE, keepalive |-> TRUE, keepalive_idle_secs |-> TRUE,
      keepalive_interval_secs |-> TRUE, keepalive_count |-> TRUE,
      send_buffer_size |-> FALSE, recv_buffer_size |-> FALSE ]

\* The options of the calls: the default, the default with both buffer
\* sizes, and keepalive alone.
TuningOptions ==
    { DefaultOptions,
      [DefaultOptions EXCEPT !.send_buffer_size = TRUE, !.recv_buffer_size = TRUE],
      [NoOptions EXCEPT !.keepalive = TRUE] }

\* apply_socket_options: the setsockopt calls it makes, in order.
OptionSteps(o) ==
    (IF o.nodelay THEN <<"TCP_NODELAY">> ELSE <<>>)
    \o (IF o.keepalive
        THEN <<"SO_KEEPALIVE">>
             \o (IF o.keepalive_idle_secs THEN <<"TCP_KEEPIDLE">> ELSE <<>>)
             \o (IF o.keepalive_interval_secs THEN <<"TCP_KEEPINTVL">> ELSE <<>>)
             \o (IF o.keepalive_count THEN <<"TCP_KEEPCNT">> ELSE <<>>)
        ELSE <<>>)
    \o (IF o.send_buffer_size THEN <<"SO_SNDBUF">> ELSE <<>>)
    \o (IF o.recv_buffer_size THEN <<"SO_RCVBUF">> ELSE <<>>)

\* sa_family of the address accept4 filled in.
Families == {"AF_INET", "AF_INET6", "AF_UNIX"}

\* accept_with_options(listener, options) is called.
AcceptWithOptions ==
    /\ atpc \in {"idle", "returned"}
    /\ atcalls < MaxAccepts
    /\ atcalls' = atcalls + 1
    /\ atpc' = "ready"
    /\ atcur' = NoAccepted
    /\ atret' = "none"
    /\ UNCHANGED <<coreVars, fdOthers, atopts, atfds>>

\* listener.ready(Interest::READABLE).await?
ListenerReady(ok) ==
    /\ atpc = "ready"
    /\ IF ok
       THEN atpc' = "accept4" /\ UNCHANGED atret
       ELSE atpc' = "returned" /\ atret' = "Err"
    /\ UNCHANGED <<coreVars, fdOthers, atopts, atfds, atcur, atcalls>>

\* accept4 returns a descriptor, the lowest that is not open.
Accept4Ok(family) ==
    /\ atpc = "accept4"
    /\ \E f \in Fds :
          /\ atfds[f] \in {"free", "closed"}
          /\ \A g \in Fds : g < f => atfds[g] \notin {"free", "closed"}
          /\ atfds' = [atfds EXCEPT ![f] = "accepted"]
          /\ atcur' = [fd |-> f, family |-> family, step |-> 1]
    /\ atpc' = "options"
    /\ UNCHANGED <<coreVars, fdOthers, atopts, atret, atcalls>>

\* accept4 returns -1 with EWOULDBLOCK: continue.
Accept4WouldBlock ==
    /\ atpc = "accept4"
    /\ atpc' = "ready"
    /\ UNCHANGED <<coreVars, fdOthers, atopts, atfds, atcur, atret, atcalls>>

\* accept4 returns -1 with any other error: return Err(err).
Accept4Err ==
    /\ atpc = "accept4"
    /\ atpc' = "returned"
    /\ atret' = "Err"
    /\ UNCHANGED <<coreVars, fdOthers, atopts, atfds, atcur, atcalls>>

\* apply_socket_options: one setsockopt; a result < 0 is returned by `?`
\* from apply_socket_options and again from accept_with_options.
SetSockOpt(ok) ==
    /\ atpc = "options"
    /\ atcur.step <= Len(OptionSteps(atopts))
    /\ IF ok
       THEN /\ atcur' = [atcur EXCEPT !.step = @ + 1]
            /\ UNCHANGED <<atpc, atret>>
       ELSE /\ atpc' = "returned"
            /\ atret' = "Err"
            /\ UNCHANGED atcur
    /\ UNCHANGED <<coreVars, fdOthers, atopts, atfds, atcalls>>

\* apply_socket_options returned Ok(()); the address is converted and the
\* descriptor becomes the TcpStream that is returned, or the family is
\* unknown and Err is returned.
ConvertAddress ==
    /\ atpc = "options"
    /\ atcur.step > Len(OptionSteps(atopts))
    /\ IF atcur.family \in {"AF_INET", "AF_INET6"}
       THEN /\ atfds' = [atfds EXCEPT ![atcur.fd] = "stream"]
            /\ atret' = "Ok"
       ELSE /\ atret' = "Err"
            /\ UNCHANGED atfds
    /\ atpc' = "returned"
    /\ UNCHANGED <<coreVars, fdOthers, atopts, atcur, atcalls>>

\* The caller drops a TcpStream it was given: its descriptor is closed.
StreamDropped(f) ==
    /\ atfds[f] = "stream"
    /\ atfds' = [atfds EXCEPT ![f] = "closed"]
    /\ UNCHANGED <<coreVars, fdOthers, atpc, atopts, atcur, atret, atcalls>>

InitTune ==
    /\ atpc = "idle"
    /\ atopts \in TuningOptions
    /\ atfds = [f \in Fds |-> "free"]
    /\ atcur = NoAccepted
    /\ atret = "none"
    /\ atcalls = 0
    /\ rcvq = [s \in Side |-> <<>>]
    /\ peerClosed = [s \in Side |-> FALSE]
    /\ sent = [s \in Side |-> <<>>]
    /\ sockOpen = [s \in Side |-> FALSE]
    /\ RelayIdle
    /\ UniIdle
    /\ HandlerIdle
    /\ ChannelIdle
    /\ DetectorIdle
    /\ RegistryIdle
    /\ BindIdle
    /\ ConnectIdle
    /\ AcceptIdle
    /\ ManagerIdle
    /\ ForwardIdle

NextTune ==
    \/ AcceptWithOptions
    \/ \E ok \in BOOLEAN : ListenerReady(ok)
    \/ \E family \in Families : Accept4Ok(family)
    \/ Accept4WouldBlock
    \/ Accept4Err
    \/ \E ok \in BOOLEAN : SetSockOpt(ok)
    \/ ConvertAddress
    \/ \E f \in Fds : StreamDropped(f)

SpecTune == InitTune /\ [][NextTune]_vars

(* C36: when accept_with_options returns an error after accept4 gave it a   *)
(* descriptor, that descriptor has been closed: no call leaves an accepted  *)
(* descriptor open behind an error.                                         *)
C36_AcceptedClosedOnError ==
    (atpc = "returned" /\ atret = "Err") =>
        \A f \in Fds : atfds[f] # "accepted"

----------------------------------------------------------------------------
(* ChannelManager over ProxyChannel providers                               *)

\* ProxyChannel::new(config): a provider with an empty channel table.
NewProvider(max) == [registered |-> TRUE, max_connections |-> max, open |-> {}]

\* max_connections of the providers that are registered.
ProviderLimits == {0, 1}

ChannelTypes == {"Http", "Socks5"}

\* ProxyChannel::open_channel refuses: channels.len() >= max_connections.
ProviderFull(p) == Cardinality(p.open) >= p.max_connections

\* ProxyChannel::health_check(name) on provider p.
ProviderHealth(p, n) == IF n \in p.open THEN "Ok(true)" ELSE "ProviderNotFound"

\* register_channel(name, provider): channels.insert replaces the provider
\* that was registered under the name.
RegisterChannel(n, max) ==
    /\ mregs < MaxRegisters
    /\ mregs' = mregs + 1
    /\ mproviders' = [mproviders EXCEPT ![n] = NewProvider(max)]
    /\ mret' = "registered"
    /\ UNCHANGED <<coreVars, mgrOthers, mactive>>

\* open_channel(name, channel_type): the provider opens the channel and the
\* name is entered in active_channels; a refusal of the provider or a
\* missing provider is returned and nothing is entered.
ManagerOpenChannel(n, type) ==
    /\ IF ~mproviders[n].registered
       THEN /\ mret' = "ProviderNotFound"
            /\ UNCHANGED <<mproviders, mactive>>
       ELSE IF ProviderFull(mproviders[n])
            THEN /\ mret' = "ConnectionFailed"
                 /\ UNCHANGED <<mproviders, mactive>>
            ELSE /\ mproviders' = [mproviders EXCEPT ![n].open = @ \cup {n}]
                 /\ mactive' = [mactive EXCEPT ![n] = type]
                 /\ mret' = "Ok(true)"
    /\ UNCHANGED <<coreVars, mgrOthers, mregs>>

\* close_channel(name): the provider closes the channel and the name leaves
\* active_channels; the provider's Err(ProviderNotFound) for a channel it
\* does not have is returned by `?` before the removal.
ManagerCloseChannel(n) ==
    /\ IF ~mproviders[n].registered
       THEN /\ mret' = "ProviderNotFound"
            /\ UNCHANGED <<mproviders, mactive>>
       ELSE IF n \notin mproviders[n].open
            THEN /\ mret' = "ProviderNotFound"
                 /\ UNCHANGED <<mproviders, mactive>>
            ELSE /\ mproviders' = [mproviders EXCEPT ![n].open = @ \ {n}]
                 /\ mactive' = [mactive EXCEPT ![n] = "none"]
                 /\ mret' = "Ok"
    /\ UNCHANGED <<coreVars, mgrOthers, mregs>>

\* ChannelManager::new
InitManager ==
    /\ mproviders = [n \in MgrNames |-> NoProvider]
    /\ mactive = [n \in MgrNames |-> "none"]
    /\ mret = "none"
    /\ mregs = 0
    /\ rcvq = [s \in Side |-> <<>>]
    /\ peerClosed = [s \in Side |-> FALSE]
    /\ sent = [s \in Side |-> <<>>]
    /\ sockOpen = [s \in Side |-> FALSE]
    /\ RelayIdle
    /\ UniIdle
    /\ HandlerIdle
    /\ ChannelIdle
    /\ DetectorIdle
    /\ RegistryIdle
    /\ BindIdle
    /\ ConnectIdle
    /\ AcceptIdle
    /\ TuneIdle
    /\ ForwardIdle

NextManager ==
    \/ \E n \in MgrNames, max \in ProviderLimits : RegisterChannel(n, max)
    \/ \E n \in MgrNames, type \in ChannelTypes : ManagerOpenChannel(n, type)
    \/ \E n \in MgrNames : ManagerCloseChannel(n)

SpecManager == InitManager /\ [][NextManager]_vars

(* C37: every name in active_channels is a channel that is open in the      *)
(* provider registered under that name (its health_check gives Ok(true)),   *)
(* after any sequence of register_channel, open_channel and close_channel   *)
(* calls, failing ones and re-registrations included.                       *)
C37_ActiveIsOpen ==
    \A n \in MgrNames :
        mactive[n] # "none" =>
            /\ mproviders[n].registered
            /\ ProviderHealth(mproviders[n], n) = "Ok(true)"

----------------------------------------------------------------------------
(* Blocking forwarder: minimal_nc_forward                                   *)

\* What a step of the forwarder leaves alone, besides the sockets and its
\* own variables.
ncFrame == <<relayVars, uniVars, hVars, chanVars, detVars, regVars, bindVars, ncOthers>>

\* TcpStream::connect(target)? and the two try_clone()? succeed; the client
\* -> target thread is spawned and the caller enters its own loop.
NcConnectOk ==
    /\ ncmain = "connect"
    /\ sockOpen' = [sockOpen EXCEPT !["remote"] = TRUE]
    /\ ncmain' = "read"
    /\ ncfwd' = "read"
    /\ UNCHANGED <<ncFrame, rcvq, peerClosed, sent, ncbuf>>

\* TcpStream::connect(target)? fails: Err is returned, the client dropped.
NcConnectErr ==
    /\ ncmain = "connect"
    /\ sockOpen' = [s \in Side |-> FALSE]
    /\ ncmain' = "returned_err"
    /\ UNCHANGED <<ncFrame, rcvq, peerClosed, sent, ncfwd, ncbuf>>

\* The pc variable of the thread that copies direction d: the spawned thread
\* copies client -> target, the caller target -> client.
NcAt(d, pc) == IF d = "c2r" THEN ncfwd = pc ELSE ncmain = pc

NcGoes(d, pc) ==
    IF d = "c2r" THEN ncfwd' = pc /\ UNCHANGED ncmain
    ELSE ncmain' = pc /\ UNCHANGED ncfwd

\* Where a thread is once its loop has ended: the spawned thread is
\* finished, the caller is at forward_thread.join().
NcLoopEnded(d) == IF d = "c2r" THEN "done" ELSE "join"

\* read(&mut buf) returns Ok(n), n > 0: the blocking read had bytes.
NcRead(d) ==
    /\ NcAt(d, "read")
    /\ rcvq[SrcOf(d)] # <<>>
    /\ \E n \in 1..Len(rcvq[SrcOf(d)]) :
          /\ ncbuf' = [ncbuf EXCEPT ![d] = Take(rcvq[SrcOf(d)], n)]
          /\ rcvq' = [rcvq EXCEPT ![SrcOf(d)] = Drop(@, n)]
    /\ NcGoes(d, "write")
    /\ UNCHANGED <<ncFrame, peerClosed, sent, sockOpen>>

\* read returns Ok(0): the peer has closed; break.
NcReadEof(d) ==
    /\ NcAt(d, "read")
    /\ rcvq[SrcOf(d)] = <<>>
    /\ peerClosed[SrcOf(d)]
    /\ NcGoes(d, NcLoopEnded(d))
    /\ UNCHANGED <<ncFrame, sockVars, ncbuf>>

\* read returns Err(_): break.
NcReadErr(d) ==
    /\ NcAt(d, "read")
    /\ NcGoes(d, NcLoopEnded(d))
    /\ UNCHANGED <<ncFrame, sockVars, ncbuf>>

\* write_all(&buf[..n]) succeeds: back to read.
NcWrite(d) ==
    /\ NcAt(d, "write")
    /\ sent' = [sent EXCEPT ![DstOf(d)] = @ \o ncbuf[d]]
    /\ ncbuf' = [ncbuf EXCEPT ![d] = <<>>]
    /\ NcGoes(d, "read")
    /\ UNCHANGED <<ncFrame, rcvq, peerClosed, sockOpen>>

\* write_all(..).is_err(): break.
NcWriteErr(d) ==
    /\ NcAt(d, "write")
    /\ NcGoes(d, NcLoopEnded(d))
    /\ UNCHANGED <<ncFrame, sockVars, ncbuf>>

\* forward_thread.join() returns once the spawned thread has finished; the
\* statistics are printed, Ok(()) is returned and the streams are dropped.
NcJoin ==
    /\ ncmain = "join"
    /\ ncfwd = "done"
    /\ ncmain' = "returned"
    /\ sockOpen' = [s \in Side |-> FALSE]
    /\ UNCHANGED <<ncFrame, rcvq, peerClosed, sent, ncfwd, ncbuf>>

\* minimal_nc_forward(client, target) is called on an accepted client; what
\* each peer sends, and whether it closes behind it, is the peers' choice.
InitForward ==
    /\ rcvq \in [Side -> SeqsUpTo(RelayBytes, MaxPayload)]
    /\ peerClosed \in [Side -> BOOLEAN]
    /\ sent = [s \in Side |-> <<>>]
    /\ sockOpen = [s \in Side |-> s = "client"]
    /\ ncmain = "connect"
    /\ ncfwd = "idle"
    /\ ncbuf = [d \in Dir |-> <<>>]
    /\ RelayIdle
    /\ UniIdle
    /\ HandlerIdle
    /\ ChannelIdle
    /\ DetectorIdle
    /\ RegistryIdle
    /\ BindIdle
    /\ ConnectIdle
    /\ AcceptIdle
    /\ TuneIdle
    /\ ManagerIdle

NextForward ==
    \/ NcConnectOk
    \/ NcConnectErr
    \/ \E d \in Dir : NcRead(d)
    \/ \E d \in Dir : NcReadEof(d)
    \/ \E d \in Dir : NcReadErr(d)
    \/ \E d \in Dir : NcWrite(d)
    \/ \E d \in Dir : NcWriteErr(d)
    \/ NcJoin

SpecForward == InitForward /\ [][NextForward]_vars

\* Both threads are scheduled: a system call that can return does, and the
\* join returns once the thread has finished.  Errors are not forced.
ForwardProgress ==
    /\ WF_vars(NcConnectOk \/ NcConnectErr)
    /\ \A d \in Dir : WF_vars(NcRead(d) \/ NcReadEof(d))
    /\ \A d \in Dir : WF_vars(NcWrite(d) \/ NcWriteErr(d))
    /\ WF_vars(NcJoin)

SpecForwardFair == SpecForward /\ ForwardProgress

(* C38: once the target -> client loop has ended, at EOF or on an error,    *)
(* the client -> target thread is brought to an end too and                 *)
(* minimal_nc_forward returns, whatever the client does.                    *)
C38_ForwardTerminates == (ncmain = "join") ~> (ncmain = "returned")

----------------------------------------------------------------------------
(* Detector paths                                                           *)

(* C39: detect_simd and detect_scalar return the same protocol for every    *)
(* buffer, below, at and above the 16-byte NEON threshold.                  *)
C39_SimdEqualsScalar ==
    dres.simd # "none" => dres.simd = DetectScalar(dbuf)

====
